---- MODULE Spec2Model ----
(***************************************************************************)
(* Model of the Lalamove profitability calculator's analysis pipeline:     *)
(* handleCalculate / analyzeOrder (main), geocodeAddress / geocodeMultiple *)
(* (services/geocoding), calculateMultiStopRoute (services/routing), the   *)
(* OneMap client (api/onemap) and the fuel service.                        *)
(*                                                                         *)
(* Units.  Latitudes and longitudes are in tenths of a degree (1.3 -> 13,  *)
(* 103.8 -> 1038).  Distances are in metres, times in thousandths of a     *)
(* minute, money in tenths of a cent, efficiency in km/L, petrol price in  *)
(* cents per litre.  Divisions truncate.                                   *)
(***************************************************************************)
EXTENDS Integers, Sequences, FiniteSets, TLC

(***************************************************************************)
(* Bounds of the model                                                     *)
(***************************************************************************)
MaxStops == 1
MaxSubmits == 2
MaxDirectPoints == 3
MaxFareCents == 1000
MaxRateCents == 2100
MaxOverEfficiency == 2
MaxWaitStops == 2
MaxWords == 4

(***************************************************************************)
(* Program constants                                                       *)
(***************************************************************************)
MinLat == 11
MaxLat == 15
MinLng == 1036
MaxLng == 1041
MinPoints == 2
AverageSpeedKmH == 25
RoadFactorTenths == 14
MaxEfficiency == 100
DefaultPickupWaitMinutes == 6

NoToken == "null"
Null == [kind |-> "null"]

(***************************************************************************)
(* Inputs: what the user can type in an address field.  A "pair" is a      *)
(* string matching the coordinate pattern of parseCoordinates, a "text"    *)
(* is any other string.                                                    *)
(***************************************************************************)
PairInput(lat, lng) == [kind |-> "pair", term |-> "", lat |-> lat, lng |-> lng]
TextInput(term) == [kind |-> "text", term |-> term, lat |-> 0, lng |-> 0]

\* One pair on the corner of the bounding box, one just outside it.
CurrentInputs == {PairInput(15, 1041), PairInput(16, 1038)}
PickupInputs == {TextInput("A")}
StopInputs == {TextInput("B")}

\* parseCoordinates: the pattern match, then the Singapore bounding box.
parseCoordinates(input) ==
  IF input.kind = "pair"
     /\ input.lat >= MinLat /\ input.lat <= MaxLat
     /\ input.lng >= MinLng /\ input.lng <= MaxLng
  THEN [isCoordinates |-> TRUE, lat |-> input.lat, lng |-> input.lng]
  ELSE [isCoordinates |-> FALSE, lat |-> 0, lng |-> 0]


(***************************************************************************)
(* The OneMap services, as the client sees them                            *)
(***************************************************************************)
\* What fetch + the response checks of searchAddress can end in.
SearchOutcomes == {"ok", "empty", "http", "network"}
\* What fetch + the response checks of reverseGeocode can end in.
ReverseOutcomes == {"ok", "empty", "http", "network"}
\* What fetch + the response checks of getRoute can end in.
RouteOutcomes == {"ok", "unauthorized", "network", "malformed"}
\* What the caller of a request observes: it returned, or it threw.
Settled(outcome) == IF outcome = "ok" THEN "ok" ELSE "threw"
\* What the token request of fetchTokenWithCredentials can end in.
TokenOutcomes == {"ok", "http", "notoken", "network"}

\* The first (best) search result the service holds for a query.
\* "A" is a flat in an HDB block, "B" an office tower, "C" a mall.
SearchBest(input) ==
  CASE input.kind = "text" /\ input.term = "A" ->
         [LATITUDE |-> 13, LONGITUDE |-> 1037, BUILDING |-> <<>>,
          SEARCHVAL |-> <<"BLK", "123", "ALJUNIED", "ROAD">>,
          ADDRESS |-> <<"BLK", "123", "ALJUNIED", "ROAD">>]
    [] input.kind = "text" /\ input.term = "B" ->
         [LATITUDE |-> 14, LONGITUDE |-> 1039,
          BUILDING |-> <<"ALJUNIED", "TOWER">>,
          SEARCHVAL |-> <<"ALJUNIED", "TOWER">>,
          ADDRESS |-> <<"ALJUNIED", "ROAD">>]
    [] input.kind = "text" /\ input.term = "C" ->
         [LATITUDE |-> 15, LONGITUDE |-> 1041, BUILDING |-> <<"MALL">>,
          SEARCHVAL |-> <<"MALL">>, ADDRESS |-> <<"ALJUNIED", "ROAD">>]
    [] input.kind = "text" ->
         [LATITUDE |-> 12, LONGITUDE |-> 1040, BUILDING |-> <<>>,
          SEARCHVAL |-> <<"ALJUNIED">>, ADDRESS |-> <<"ALJUNIED">>]
    [] OTHER ->
         [LATITUDE |-> 13, LONGITUDE |-> 1038, BUILDING |-> <<>>,
          SEARCHVAL |-> <<"ALJUNIED">>, ADDRESS |-> <<"ALJUNIED">>]

\* The result the service holds for a reverse lookup: a named building on a
\* road, without a block number.
ReverseBest(input) ==
  [BUILDINGNAME |-> <<"ALJUNIED", "TOWER">>, ROAD |-> <<"ALJUNIED", "ROAD">>,
   BLOCK |-> ""]

\* route_summary of a successful routing response.
RouteSummary == [total_distance |-> 3000, total_time |-> 600]

(***************************************************************************)
(* services/geocoding: building classification.  A text is the sequence of *)
(* its words (what single spaces separate; an empty field of a template    *)
(* string leaves an empty word).                                           *)
(***************************************************************************)
Words ==
  {"BLK", "123", "BLOCK", "ALJUNIED", "CONDO", "TOWER", "MALL", "WAREHOUSE",
   "ROAD", "#01"}

\* The keywords of the classifier that are substrings of a word.
KeywordsIn(word) ==
  CASE word = "BLK" -> {"BLK"}
    [] word = "BLOCK" -> {"BLOCK"}
    [] word = "CONDO" -> {"CONDO"}
    [] word = "TOWER" -> {"TOWER"}
    [] word = "MALL" -> {"MALL"}
    [] word = "WAREHOUSE" -> {"WAREHOUSE", "HOUSE"}
    [] word = "ROAD" -> {"ROAD"}
    [] word = "#01" -> {"#"}
    [] word = "PLAZA" -> {"PLAZA"}
    [] word = "CENTRE" -> {"CENTRE"}
    [] OTHER -> {}

\* /^\d/ of a word, and the number of its characters.
StartsWithDigit(word) == word = "123"
WordLength(word) ==
  CASE word = "" -> 0
    [] word \in {"BLK", "123", "#01"} -> 3
    [] word \in {"MALL", "ROAD"} -> 4
    [] word \in {"BLOCK", "CONDO", "TOWER", "PLAZA"} -> 5
    [] word = "CENTRE" -> 6
    [] word = "ALJUNIED" -> 8
    [] OTHER -> 9

RECURSIVE TextLength(_)
\* string.length of the words joined by single spaces
TextLength(text) ==
  IF text = <<>> THEN 0
  ELSE IF Len(text) = 1 THEN WordLength(text[1])
  ELSE WordLength(text[1]) + 1 + TextLength(Tail(text))

\* A field of a search result inside a template string.
Field(text) == IF text = <<>> THEN <<"">> ELSE text

\* `${building} ${searchVal} ${address}`
Combined(locationData) ==
  Field(locationData.BUILDING) \o Field(locationData.SEARCHVAL)
    \o Field(locationData.ADDRESS)

\* combined.includes(kw) for a keyword without a space, and for one of two
\* words.
Includes(text, kw) == \E i \in DOMAIN text : kw \in KeywordsIn(text[i])
IncludesPair(text, first, second) ==
  \E i \in 1 .. (Len(text) - 1) : text[i] = first /\ text[i + 1] = second
IncludesAny(text, kws) == \E kw \in kws : Includes(text, kw)

\* /BLK\s*\d+/.test(combined)
BlkNumber(text) ==
  LET solid == SelectSeq(text, LAMBDA w : w # "")
  IN  \E i \in 1 .. (Len(solid) - 1) :
        "BLK" \in KeywordsIn(solid[i]) /\ StartsWithDigit(solid[i + 1])

condoKeywords ==
  {"CONDO", "CONDOMINIUM", "RESIDENCE", "RESIDENCES", "APARTMENT", "SUITES",
   "LODGE", "MANSIONS", "HEIGHTS", "GARDENS", "VILLA", "VILLAS", "COURT"}
officeKeywords ==
  {"TOWER", "TOWERS", "BUILDING", "CENTRE", "CENTER", "PLAZA", "COMPLEX",
   "HOUSE", "PLACE", "SQUARE", "OFFICE", "CORPORATE", "BUSINESS"}
mallKeywords ==
  {"MALL", "SHOPPING", "RETAIL", "CITY", "JUNCTION", "POINT", "MARKET", "MART"}
industrialKeywords ==
  {"INDUSTRIAL", "FACTORY", "WAREHOUSE", "LOGISTICS", "TECHPARK", "BIZPARK"}
industrialPairs ==
  {<<"TECH", "PARK">>, <<"BIZ", "HUB">>, <<"INDUSTRIAL", "PARK">>,
   <<"IND", "PARK">>}
landedKeywords ==
  {"TERRACE", "DRIVE", "AVENUE", "ROAD", "STREET", "LANE", "CLOSE", "CRESCENT",
   "WALK"}

\* The keyword test of each category, in the order of the code.
Categories == <<"hdb", "condo", "office", "mall", "industrial", "landed">>
KeywordMatch(category, text) ==
  CASE category = "hdb" ->
         Includes(text, "HDB") \/ BlkNumber(text) \/ Includes(text, "BLOCK")
    [] category = "condo" -> IncludesAny(text, condoKeywords)
    [] category = "office" -> IncludesAny(text, officeKeywords)
    [] category = "mall" -> IncludesAny(text, mallKeywords)
    [] category = "industrial" ->
         \/ IncludesAny(text, industrialKeywords)
         \/ \E p \in industrialPairs : IncludesPair(text, p[1], p[2])
    [] category = "landed" -> IncludesAny(text, landedKeywords)

\* A classifier that looks for condo keywords before HDB ones.  C20 does not
\* hold of it.
detectBuildingTypeCondoFirst(locationData) ==
  LET combined == Combined(locationData)
  IN  IF KeywordMatch("condo", combined) THEN "condo"
      ELSE IF KeywordMatch("hdb", combined) THEN "hdb"
      ELSE IF KeywordMatch("office", combined) THEN "office"
      ELSE IF KeywordMatch("mall", combined) THEN "mall"
      ELSE IF KeywordMatch("industrial", combined) THEN "industrial"
      ELSE "default"

\* detectBuildingType(locationData)
detectBuildingType(locationData) ==
  LET combined == Combined(locationData)
  IN  IF KeywordMatch("hdb", combined) THEN "hdb"
      ELSE IF KeywordMatch("condo", combined) THEN "condo"
      ELSE IF KeywordMatch("office", combined) THEN "office"
      ELSE IF KeywordMatch("mall", combined) THEN "mall"
      ELSE IF KeywordMatch("industrial", combined) THEN "industrial"
      ELSE IF /\ ~Includes(combined, "BLK")
              /\ ~Includes(combined, "#")
              /\ KeywordMatch("landed", combined)
              /\ TextLength(locationData.BUILDING) < 3
           THEN "landed"
           ELSE "default"

\* detectBuildingTypeFromReverse(result)
detectBuildingTypeFromReverse(result) ==
  LET combined == Field(result.BUILDINGNAME) \o Field(result.ROAD)
  IN  IF Includes(combined, "HDB") \/ result.BLOCK # "" THEN "hdb"
      ELSE IF IncludesAny(combined, {"CONDO", "RESIDENCE", "TOWER", "HEIGHTS"})
           THEN "condo"
      ELSE IF IncludesAny(combined, {"MALL", "SHOPPING", "PLAZA"}) THEN "mall"
      ELSE IF IncludesAny(combined, {"OFFICE", "BUILDING", "CENTRE", "CENTER"})
           THEN "office"
      ELSE IF IncludesAny(combined, {"INDUSTRIAL", "TECHPARK", "WAREHOUSE"})
           THEN "industrial"
      ELSE "default"

(***************************************************************************)
(* services/geocoding                                                      *)
(***************************************************************************)
Address(src, input) ==
  [src |-> src, term |-> input.term, lat |-> input.lat, lng |-> input.lng]

NoLocation == [lat |-> 0, lng |-> 0,
               address |-> [src |-> "none", term |-> "", lat |-> 0, lng |-> 0],
               buildingType |-> ""]

\* geocodeAddress, coordinate branch, reverse lookup succeeded.
ReverseLocation(input) ==
  [lat |-> parseCoordinates(input).lat, lng |-> parseCoordinates(input).lng,
   address |-> Address("reverse", input),
   buildingType |-> detectBuildingTypeFromReverse(ReverseBest(input))]

\* A catch that leaves the building type empty.  C21 does not hold of it.
CoordinateLocationUntyped(input) ==
  [lat |-> parseCoordinates(input).lat, lng |-> parseCoordinates(input).lng,
   address |-> Address("coords", input), buildingType |-> ""]

\* geocodeAddress, coordinate branch, reverse lookup failed (the catch).
CoordinateLocation(input) ==
  [lat |-> parseCoordinates(input).lat, lng |-> parseCoordinates(input).lng,
   address |-> Address("coords", input), buildingType |-> "default"]

\* geocodeAddress, forward search branch.
SearchLocation(input) ==
  [lat |-> SearchBest(input).LATITUDE, lng |-> SearchBest(input).LONGITUDE,
   address |-> Address("search", input),
   buildingType |-> detectBuildingType(SearchBest(input))]

\* The request geocodeAddress issues for an input before its first await.
LookupVia(input) ==
  IF parseCoordinates(input).isCoordinates THEN "reverse" ELSE "search"

\* outcome records how the request ended ("" while it is outstanding).
NewLookup(input) ==
  [input |-> input, via |-> LookupVia(input), status |-> "pending",
   outcome |-> "", loc |-> NoLocation]

\* A geocodeAddress whose coordinate branch has no catch: a failed reverse
\* lookup rejects like a failed search.  C8 does not hold of it.
LookupResultStrict(l, outcome) ==
  IF outcome = "ok"
  THEN [l EXCEPT !.status = "ok", !.outcome = Settled(outcome),
                 !.loc = IF l.via = "reverse" THEN ReverseLocation(l.input)
                                              ELSE SearchLocation(l.input)]
  ELSE [l EXCEPT !.status = "failed", !.outcome = Settled(outcome)]

\* geocodeAddress after its request has ended with `outcome`.
LookupResult(l, outcome) ==
  IF l.via = "reverse"
  THEN IF outcome = "ok"
       THEN [l EXCEPT !.status = "ok", !.outcome = Settled(outcome),
                      !.loc = ReverseLocation(l.input)]
       ELSE [l EXCEPT !.status = "ok", !.outcome = Settled(outcome),
                      !.loc = CoordinateLocation(l.input)]
  ELSE IF outcome = "ok"
       THEN [l EXCEPT !.status = "ok", !.outcome = Settled(outcome),
                      !.loc = SearchLocation(l.input)]
       ELSE [l EXCEPT !.status = "failed", !.outcome = Settled(outcome)]


(***************************************************************************)
(* config                                                                  *)
(***************************************************************************)
TrafficConditions == {"light", "normal", "heavy"}
Hours == 0 .. 23

\* A schedule whose periods include their end hour.  C22 does not hold of
\* it.
detectTrafficConditionInclusiveEnd(singaporeHour) ==
  IF (singaporeHour >= 7 /\ singaporeHour <= 10)
     \/ (singaporeHour >= 17 /\ singaporeHour <= 20)
  THEN "heavy"
  ELSE IF (singaporeHour >= 11 /\ singaporeHour <= 14)
          \/ (singaporeHour >= 14 /\ singaporeHour <= 17)
       THEN "normal"
       ELSE "light"

\* CONFIG.traffic.peakHours / moderateHours and detectTrafficCondition, as a
\* function of the Singapore local hour.
detectTrafficCondition(singaporeHour) ==
  IF (singaporeHour >= 7 /\ singaporeHour < 10)
     \/ (singaporeHour >= 17 /\ singaporeHour < 20)
  THEN "heavy"
  ELSE IF (singaporeHour >= 11 /\ singaporeHour < 14)
          \/ (singaporeHour >= 14 /\ singaporeHour < 17)
       THEN "normal"
       ELSE "light"

\* trafficCondition || detectTrafficCondition(), at the given hour; "" is no
\* condition supplied.
TrafficFor(trafficCondition, singaporeHour) ==
  IF trafficCondition # "" THEN trafficCondition
  ELSE detectTrafficCondition(singaporeHour)

\* CONFIG.traffic.conditions[condition]?.speedKmH ?? averageSpeedKmH
getTrafficSpeed(condition) ==
  CASE condition = "light" -> 35
    [] condition = "normal" -> 25
    [] condition = "heavy" -> 15
    [] OTHER -> AverageSpeedKmH

(***************************************************************************)
(* api/onemap: straight-line distance                                      *)
(***************************************************************************)
Abs(x) == IF x < 0 THEN -x ELSE x

\* The integer square root of n, searched between lo and hi.
RECURSIVE ISqrtIn(_, _, _)
ISqrtIn(n, lo, hi) ==
  IF lo >= hi
  THEN lo
  ELSE LET mid == (lo + hi + 1) \div 2
       IN  IF mid * mid <= n THEN ISqrtIn(n, mid, hi) ELSE ISqrtIn(n, lo, mid - 1)

ISqrt(n, hi) == ISqrtIn(n, 0, hi)

\* calculateStraightLineDistance, in metres.  On the tenth-of-a-degree grid
\* around latitude 1.3 the haversine distance is, to within a metre per
\* kilometre, 11.12 km times the Euclidean norm of the coordinate
\* differences; the norm is taken to the nearest lower hundredth.
calculateStraightLineDistance(start, end) ==
  LET dLat == Abs(end.lat - start.lat)
      dLng == Abs(end.lng - start.lng)
  IN  (1112 * ISqrt(100 * 100 * (dLat * dLat + dLng * dLng),
                     100 * (dLat + dLng))) \div 10

(***************************************************************************)
(* services/routing                                                        *)
(***************************************************************************)
\* calculateRouteLeg after getRoute has returned routeData.
calculateRouteLeg(start, end, routeData, trafficCondition) ==
  LET distanceM == routeData.total_distance
      apiTime == (routeData.total_time * 1000) \div 60
      trafficSpeed == getTrafficSpeed(trafficCondition)
      normalSpeed == AverageSpeedKmH
  IN  [from |-> start.address, to |-> end.address,
       distanceM |-> distanceM,
       timeMilliMin |-> (apiTime * normalSpeed) \div trafficSpeed,
       isEstimate |-> FALSE]

\* estimateRouteLeg
estimateRouteLeg(start, end, trafficCondition) ==
  LET straightLineM == calculateStraightLineDistance(start, end)
      estimatedDistanceM == (straightLineM * RoadFactorTenths) \div 10
      speed == getTrafficSpeed(trafficCondition)
  IN  [from |-> start.address, to |-> end.address,
       distanceM |-> estimatedDistanceM,
       timeMilliMin |-> (estimatedDistanceM * 60) \div speed,
       isEstimate |-> TRUE]

\* An iteration whose catch builds the leg from the summary instead of
\* estimating it.  C2 does not hold of it.
LegForNoFallback(start, end, outcome, trafficCondition) ==
  calculateRouteLeg(start, end, RouteSummary, trafficCondition)

\* The body of one iteration of the loop of calculateMultiStopRoute, once the
\* routing call of the leg has ended with `outcome`: the try and its catch.
LegFor(start, end, outcome, trafficCondition) ==
  IF outcome = "ok"
  THEN calculateRouteLeg(start, end, RouteSummary, trafficCondition)
  ELSE estimateRouteLeg(start, end, trafficCondition)

\* A flag assigned from the last leg instead of accumulated.  C3 does not
\* hold of it.
HasEstimatesLast(before, leg) == leg.isEstimate

\* hasEstimates after a leg has been pushed.
HasEstimatesAfter(before, leg) == before \/ leg.isEstimate

\* A loop that stops one leg early.  C4 does not hold of it.
CallsToIssueShort(done, n) == IF done < n - 2 THEN {done + 1} ELSE {}

\* A loop that starts every routing call at once.  C5 does not hold of it.
CallsToIssueAll(done, n) == IF done = 0 THEN 1 .. (n - 1) ELSE {}

\* The routing calls issued once `done` legs have been pushed, for n points:
\* the for loop awaits each leg before the next iteration.
CallsToIssue(done, n) == IF done < n - 1 THEN {done + 1} ELSE {}

RECURSIVE sumBy(_, _)
sumBy(arr, key) ==
  IF arr = <<>> THEN 0 ELSE arr[1][key] + sumBy(Tail(arr), key)

\* The FullRoute object calculateMultiStopRoute returns.
RouteOf(ls, he, tc) ==
  [legs |-> ls,
   totalDistanceKm |-> sumBy(ls, "distanceM"),
   totalTravelMinutes |-> sumBy(ls, "timeMilliMin"),
   hasEstimates |-> he,
   trafficCondition |-> tc]

\* A guard that lets a single point through.  C6 does not hold of it.
TooFewPointsOffByOne(pts) == Len(pts) < 1

\* The guard of calculateMultiStopRoute.
TooFewPoints(pts) == Len(pts) < MinPoints


(***************************************************************************)
(* services/fuel                                                           *)
(***************************************************************************)
NoEfficiency == 0 - 1

\* BIKE_MODELS.find(...)?.efficiency ?? null, with null as NoEfficiency.
getBikeEfficiency(bikeId) ==
  CASE bikeId = "ybr125" -> 45
    [] bikeId = "wave125" -> 50
    [] bikeId = "cb125f" -> 47
    [] bikeId = "pcx160" -> 40
    [] bikeId = "nmax155" -> 38
    [] bikeId = "y15zr" -> 40
    [] bikeId = "raider150" -> 38
    [] bikeId = "cbf150" -> 40
    [] bikeId = "kriss110" -> 55
    [] bikeId = "ex5" -> 55
    [] OTHER -> NoEfficiency

\* getBikeEfficiency(bikeModel) ?? customEfficiency
ResolveEfficiency(fd) ==
  IF getBikeEfficiency(fd.bikeModel) # NoEfficiency
  THEN getBikeEfficiency(fd.bikeModel)
  ELSE fd.customEfficiency

\* A check that lets zero through.  C10 does not hold of it.
EfficiencyRejectedNegativeOnly(efficiency) == efficiency < 0

\* The check of analyzeOrder: !efficiency || efficiency <= 0
EfficiencyRejected(efficiency) == efficiency = 0 \/ efficiency <= 0

\* A range check that takes the maximum itself for out of range.  C16 does
\* not hold of it.
isValidEfficiencyBelowMax(efficiency) ==
  efficiency > 0 /\ efficiency < MaxEfficiency

\* isValidEfficiency, for a number
isValidEfficiency(efficiency) ==
  efficiency > 0 /\ efficiency <= MaxEfficiency

\* The two throws of calculateFuelCost.
FuelCostThrows(efficiencyKmPerL, pricePerLitre) ==
  ~isValidEfficiency(efficiencyKmPerL) \/ pricePerLitre <= 0

\* calculateFuelCost: litres in millilitres, cost in thousandths of a cent,
\* costPerKm is NaN for a distance of 0.
calculateFuelCost(distanceM, efficiencyKmPerL, pricePerLitre) ==
  LET litresUsed == distanceM \div efficiencyKmPerL
      cost == (distanceM * pricePerLitre) \div efficiencyKmPerL
  IN  [litresUsed |-> litresUsed, cost |-> cost,
       costPerKm |-> IF distanceM = 0
                     THEN [isNaN |-> TRUE, value |-> 0]
                     ELSE [isNaN |-> FALSE, value |-> (cost * 1000) \div distanceM]]

\* A calculateFuelCost that refuses a distance of 0.  C17 does not hold of
\* it.
FuelCostCallNoZeroDistance(distanceM, efficiencyKmPerL, pricePerLitre) ==
  IF ~isValidEfficiency(efficiencyKmPerL)
  THEN [threw |-> TRUE, message |-> "Invalid fuel efficiency", value |-> Null]
  ELSE IF pricePerLitre <= 0 \/ distanceM = 0
       THEN [threw |-> TRUE, message |-> "Invalid petrol price", value |-> Null]
       ELSE [threw |-> FALSE, message |-> "",
             value |-> calculateFuelCost(distanceM, efficiencyKmPerL,
                                         pricePerLitre)]

\* What a call of calculateFuelCost ends in: one of its two throws, or its
\* return value.
FuelCostCall(distanceM, efficiencyKmPerL, pricePerLitre) ==
  IF ~isValidEfficiency(efficiencyKmPerL)
  THEN [threw |-> TRUE, message |-> "Invalid fuel efficiency", value |-> Null]
  ELSE IF pricePerLitre <= 0
       THEN [threw |-> TRUE, message |-> "Invalid petrol price", value |-> Null]
       ELSE [threw |-> FALSE, message |-> "",
             value |-> calculateFuelCost(distanceM, efficiencyKmPerL,
                                         pricePerLitre)]

(***************************************************************************)
(* services/wait-time: minutes are whole minutes                           *)
(***************************************************************************)
BuildingTypes ==
  {"hdb", "condo", "office", "mall", "landed", "industrial", "default"}

\* WAIT_TIMES[buildingType] || WAIT_TIMES.default, its minutes
WAIT_TIMES(buildingType) ==
  CASE buildingType = "hdb" -> [minutes |-> 3, label |-> "HDB"]
    [] buildingType = "condo" -> [minutes |-> 7, label |-> "Condo"]
    [] buildingType = "office" -> [minutes |-> 10, label |-> "Office"]
    [] buildingType = "mall" -> [minutes |-> 8, label |-> "Mall"]
    [] buildingType = "landed" -> [minutes |-> 2, label |-> "Landed"]
    [] buildingType = "industrial" -> [minutes |-> 5, label |-> "Industrial"]
    [] OTHER -> [minutes |-> 5, label |-> "Unknown"]

\* An estimate that gives every building type the default.  C19 does not
\* hold of it.
estimateWaitTimeDefault(buildingType) ==
  [minutes |-> WAIT_TIMES("default").minutes, buildingType |-> buildingType,
   label |-> WAIT_TIMES("default").label, isOverride |-> FALSE]

\* estimateWaitTime(buildingType)
estimateWaitTime(buildingType) ==
  [minutes |-> WAIT_TIMES(buildingType).minutes, buildingType |-> buildingType,
   label |-> WAIT_TIMES(buildingType).label, isOverride |-> FALSE]

\* overrides[index] of an object that has no such key, holds null, or holds
\* a number.
NoOverride == [kind |-> "undefined", minutes |-> 0]
NullOverride == [kind |-> "null", minutes |-> 0]
NumberOverride(n) == [kind |-> "number", minutes |-> n]

\* An override test by truthiness, which takes 0 for absent.  C18 does not
\* hold of it.
OverridePresentTruthy(o) == o.kind = "number" /\ o.minutes # 0

\* overrides[index] !== undefined && overrides[index] !== null
OverridePresent(o) == o.kind # "undefined" /\ o.kind # "null"

\* The callback of stops.map in calculateTotalWaitTime.
StopWait(stop, o) ==
  IF OverridePresent(o)
  THEN [minutes |-> o.minutes, buildingType |-> stop.buildingType,
        label |-> WAIT_TIMES(stop.buildingType).label, isOverride |-> TRUE]
  ELSE estimateWaitTime(stop.buildingType)

RECURSIVE SumMinutes(_)
\* breakdown.reduce((sum, item) => sum + item.minutes, 0)
SumMinutes(breakdown) ==
  IF breakdown = <<>> THEN 0
  ELSE breakdown[1].minutes + SumMinutes(Tail(breakdown))

\* calculateTotalWaitTime(stops, overrides, pickupWaitMinutes); overrides[i]
\* is what the object holds under the index of stop i.
calculateTotalWaitTime(stops, overrides, pickupWaitMinutes) ==
  LET breakdown == [i \in 1 .. Len(stops) |-> StopWait(stops[i], overrides[i])]
  IN  [total |-> SumMinutes(breakdown), breakdown |-> breakdown,
       pickupWait |-> pickupWaitMinutes]

(***************************************************************************)
(* services/profitability                                                  *)
(* Money is in thousandths of a cent, time in thousandths of a minute,     *)
(* rates in percent.                                                       *)
(***************************************************************************)
Cents(c) == c * 1000
Dollars(d) == d * 100000
Minutes(m) == m * 1000

\* CONFIG.fareDeductions, as documented: commissionRate 0.15, vatRate 0.09,
\* cpfWithholdingRate 0.0, platformFeeOffset 0.5.
fareDeductions ==
  [commissionRate |-> 15, vatRate |-> 9, cpfWithholdingRate |-> 0,
   platformFeeOffset |-> Cents(50)]

\* A breakdown that takes the percentages of the gross fare instead of the
\* base fare.  C13 does not hold of it.
calculateFareBreakdownOnGross(grossFare) ==
  LET baseFare == grossFare - fareDeductions.platformFeeOffset
      commission == (grossFare * fareDeductions.commissionRate) \div 100
      vat == (grossFare * fareDeductions.vatRate) \div 100
      cpfWithholding == (grossFare * fareDeductions.cpfWithholdingRate) \div 100
      platformFee == fareDeductions.platformFeeOffset
      totalDeductions == commission + vat + cpfWithholding + platformFee
  IN  [grossFare |-> grossFare, baseFare |-> baseFare,
       commission |-> commission, vat |-> vat,
       cpfWithholding |-> cpfWithholding, platformFee |-> platformFee,
       totalDeductions |-> totalDeductions,
       netFare |-> grossFare - totalDeductions]

\* calculateFareBreakdown(grossFare)
calculateFareBreakdown(grossFare) ==
  LET baseFare == grossFare - fareDeductions.platformFeeOffset
      commission == (baseFare * fareDeductions.commissionRate) \div 100
      vat == (baseFare * fareDeductions.vatRate) \div 100
      cpfWithholding == (baseFare * fareDeductions.cpfWithholdingRate) \div 100
      platformFee == fareDeductions.platformFeeOffset
      totalDeductions == commission + vat + cpfWithholding + platformFee
  IN  [grossFare |-> grossFare, baseFare |-> baseFare,
       commission |-> commission, vat |-> vat,
       cpfWithholding |-> cpfWithholding, platformFee |-> platformFee,
       totalDeductions |-> totalDeductions,
       netFare |-> grossFare - totalDeductions]

\* PROFIT_THRESHOLDS[rating].min, in money per hour.
PROFIT_THRESHOLDS ==
  [excellent |-> [min |-> Dollars(20)], good |-> [min |-> Dollars(15)],
   okay |-> [min |-> Dollars(10)], poor |-> [min |-> Dollars(0)]]

\* A rating whose lower bounds are exclusive.  C14 does not hold of it.
getRatingExclusive(profitPerHour) ==
  IF profitPerHour > PROFIT_THRESHOLDS.excellent.min THEN "excellent"
  ELSE IF profitPerHour > PROFIT_THRESHOLDS.good.min THEN "good"
  ELSE IF profitPerHour > PROFIT_THRESHOLDS.okay.min THEN "okay"
  ELSE "poor"

\* getRating(profitPerHour)
getRating(profitPerHour) ==
  IF profitPerHour >= PROFIT_THRESHOLDS.excellent.min THEN "excellent"
  ELSE IF profitPerHour >= PROFIT_THRESHOLDS.good.min THEN "good"
  ELSE IF profitPerHour >= PROFIT_THRESHOLDS.okay.min THEN "okay"
  ELSE "poor"

\* Floor of n * 1000 / d for d > 0, taken in two steps so that no intermediate
\* product leaves the integers TLC computes with.
ThousandTimesOver(n, d) == (n \div d) * 1000 + ((n % d) * 1000) \div d

\* An hourly rate that forgets to turn minutes into hours.  C15 does not
\* hold of it.
profitPerHourPerMinute(netProfit, totalTimeMinutes) ==
  IF totalTimeMinutes > 0
  THEN ThousandTimesOver(netProfit, totalTimeMinutes)
  ELSE 0

\* totalTimeHours > 0 ? netProfit / totalTimeHours : 0
profitPerHourOf(netProfit, totalTimeMinutes) ==
  IF totalTimeMinutes > 0
  THEN ThousandTimesOver(netProfit * 60, totalTimeMinutes)
  ELSE 0

\* calculateProfitability({fare, fuelCost, travelMinutes, waitMinutes,
\* pickupWaitMinutes})
calculateProfitability(p) ==
  LET fareBreakdown == calculateFareBreakdown(p.fare)
      netFare == fareBreakdown.netFare
      netProfit == netFare - p.fuelCost
      totalTimeMinutes == p.travelMinutes + p.waitMinutes + p.pickupWaitMinutes
      profitPerHour == profitPerHourOf(netProfit, totalTimeMinutes)
  IN  [fare |-> p.fare, netFare |-> netFare, fareBreakdown |-> fareBreakdown,
       fuelCost |-> p.fuelCost, netProfit |-> netProfit,
       totalTimeMinutes |-> totalTimeMinutes,
       profitPerHour |-> profitPerHour, rating |-> getRating(profitPerHour),
       breakdown |-> [travelMinutes |-> p.travelMinutes,
                      waitMinutes |-> p.waitMinutes,
                      pickupWaitMinutes |-> p.pickupWaitMinutes,
                      fuelCostPercentage |->
                        IF netFare > 0 THEN (p.fuelCost * 100) \div netFare
                                       ELSE 0]]

(***************************************************************************)
(* Form data handed to handleCalculate                                     *)
(***************************************************************************)
EfficiencyChoices ==
  {[bikeModel |-> "ybr125", customEfficiency |-> 0],
   [bikeModel |-> "custom", customEfficiency |-> 0],
   [bikeModel |-> "custom", customEfficiency |-> 150]}
FormTraffic == {"heavy"}
PetrolPrices == {287}

StopLists == UNION {[1 .. n -> StopInputs] : n \in 1 .. MaxStops}

Fares == {Dollars(10)}

\* waitOverrides of a form on which no wait time was typed in.
NoOverrides(stops) == [i \in DOMAIN stops |-> NoOverride]

\* An order whose pickup and stops are all at the rider's own position.
SamePointForms ==
  {[currentLocation |-> TextInput("C"), pickup |-> TextInput("C"),
    stops |-> [i \in 1 .. n |-> TextInput("C")], fare |-> f,
    bikeModel |-> "ybr125", customEfficiency |-> 0, petrolPrice |-> pp,
    waitOverrides |-> [i \in 1 .. n |-> NoOverride], trafficCondition |-> t] :
     n \in 1 .. MaxStops, f \in Fares, pp \in PetrolPrices, t \in FormTraffic}

FormDatas ==
  {[currentLocation |-> c, pickup |-> p, stops |-> s, fare |-> f,
    bikeModel |-> e.bikeModel, customEfficiency |-> e.customEfficiency,
    petrolPrice |-> pp, waitOverrides |-> NoOverrides(s),
    trafficCondition |-> t] :
     c \in CurrentInputs, p \in PickupInputs, s \in StopLists, f \in Fares,
     e \in EfficiencyChoices, pp \in PetrolPrices, t \in FormTraffic}

NoFormData ==
  [currentLocation |-> TextInput(""), pickup |-> TextInput(""), stops |-> <<>>,
   fare |-> 0, bikeModel |-> "", customEfficiency |-> 0, petrolPrice |-> 0,
   waitOverrides |-> <<>>, trafficCondition |-> ""]


(***************************************************************************)
(* State                                                                   *)
(***************************************************************************)
VARIABLES
  isCalculating,  \* state.isCalculating
  lastResult,     \* state.lastResult
  formLoading,    \* setFormLoading: the form is disabled
  view,           \* what the results container shows
  inFlight,       \* handleCalculate invocations past the guard, not yet in finally
  submits,        \* handleCalculate invocations so far
  warnings,       \* handleCalculate invocations refused by the guard
  pc,             \* where the running analyzeOrder is suspended
  formData,       \* analyzeOrder: formData
  req,            \* requests issued on behalf of the last accepted request
  lookups,        \* geocodeMultiple: one geocodeAddress per address
  geocoded,       \* analyzeOrder: geocodedLocations
  tokenStore,     \* localStorage: token and expiry
  secrets,        \* api/onemap: the module-level secrets cache
  secretsFile,    \* whether secrets.js exists and holds credentials
  token,          \* getValidToken: storedToken, then the token handed on
  points,         \* calculateMultiStopRoute: points
  traffic,        \* calculateMultiStopRoute: traffic
  legs,           \* calculateMultiStopRoute: legs
  hasEstimates,   \* calculateMultiStopRoute: hasEstimates
  pendingLegs,    \* legs whose routing call is outstanding
  legOutcomes,    \* how the routing call of each pushed leg ended
  caller,         \* who awaits calculateMultiStopRoute
  routeOut,       \* what a direct call of calculateMultiStopRoute ended in
  calls,          \* getValidToken calls made outside a calculation
  applied,        \* a service called on its own: its arguments and result
  stopsForm,      \* ui/form: stopCount and the stop rows of the form
  stopClicks      \* clicks on the stop rows' buttons so far

vars ==
  <<isCalculating, lastResult, formLoading, view, inFlight, submits,
    warnings, pc,
    formData, req, lookups, geocoded, tokenStore, secrets,
    secretsFile, token, points, traffic, legs, hasEstimates, pendingLegs,
    legOutcomes, caller, routeOut, calls, applied, stopsForm, stopClicks>>

appVars == <<isCalculating, lastResult, formLoading, view, inFlight>>
geoVars == <<lookups, geocoded>>
routerVars ==
  <<points, traffic, legs, hasEstimates, pendingLegs, legOutcomes, caller>>

NoView == [kind |-> "none", result |-> Null, error |-> [name |-> "", value |-> 0]]
LoadingView == [NoView EXCEPT !.kind = "loading"]
ResultsView(result) == [NoView EXCEPT !.kind = "results", !.result = result]
ErrorView(name, value) ==
  [NoView EXCEPT !.kind = "error", !.error = [name |-> name, value |-> value]]

NoRequests ==
  [addresses |-> 0, search |-> 0, reverse |-> 0, token |-> 0, route |-> 0]

\* localStorage at start: empty, or holding a token typed in earlier (which
\* has no expiry).
TokenStores ==
  {[token |-> NoToken, expiry |-> "none"],
   [token |-> "manual", expiry |-> "none"]}

\* getRoute: const authToken = token || getStoredToken().  The request is
\* sent whether or not there is one; only the Authorization header depends
\* on it.
authToken(tok, store) == IF tok # NoToken THEN tok ELSE store.token

\* isTokenExpired
isTokenExpired(store) == store.expiry = "none" \/ store.expiry = "past"

\* storeToken(token, expiry)
storeToken(store, tok, expiry) ==
  [token |-> tok, expiry |-> IF expiry # "none" THEN expiry ELSE store.expiry]

\* clearToken: localStorage.removeItem(tokenKey)
clearToken(store) == [store EXCEPT !.token = NoToken]

\* The two callers of getValidToken that can overlap: init and a calculation.
Callers == {"init", "calc"}

IdleCall == [pc |-> "idle", storedToken |-> NoToken, ret |-> NoToken]

\* No call made yet; start remembers the store the calls began with.
NoCalls(store) == [start |-> store, init |-> IdleCall, calc |-> IdleCall]

(***************************************************************************)
(* ui/form: the delivery stop rows                                         *)
(***************************************************************************)
\* CONFIG.limits.maxStops
maxStops == 10

\* createStopInput(index, onRemove): the row's remove button calls
\* onRemove(index) with the index the row was created with, whatever its
\* dataset.index becomes later.
createStopInput(index) == [handler |-> index, dataIndex |-> index]

\* updateStopNumbers: row.dataset.index = position of the row, from 1.
updateStopNumbers(rows) ==
  [i \in 1..Len(rows) |-> [rows[i] EXCEPT !.dataIndex = i]]

\* $q(`.stop-row[data-index="${index}"]`): the first row with that
\* dataset.index, 0 when there is none.
RowToRemove(rows, index) ==
  LET found == {i \in 1..Len(rows) : rows[i].dataIndex = index}
  IN IF found = {} THEN 0 ELSE CHOOSE i \in found : \A j \in found : i <= j

WithoutRow(rows, i) == SubSeq(rows, 1, i - 1) \o SubSeq(rows, i + 1, Len(rows))

\* What the last operation on the stop rows was: the operation, the position
\* of the row whose button was clicked, the position of the row that left
\* the form (0: none), the number of rows before it, and the alert shown.
LastOp(op, clicked, removed, rowsBefore, alert) ==
  [op |-> op, clicked |-> clicked, removed |-> removed,
   rowsBefore |-> rowsBefore, alert |-> alert]

MaximumStopsAlert == "Maximum 10 stops allowed"
AtLeastOneStopAlert == "At least one delivery stop is required"

addStop(f) ==
  IF f.stopCount >= maxStops
  THEN [f EXCEPT !.last = LastOp("addStop", 0, 0, Len(f.rows),
                                 MaximumStopsAlert)]
  ELSE [stopCount |-> f.stopCount + 1,
        rows |-> updateStopNumbers(
                   Append(f.rows, createStopInput(f.stopCount + 1 - 1))),
        last |-> LastOp("addStop", 0, 0, Len(f.rows), "")]

\* removeStop(index), called by the button of the row at position clicked.
removeStop(f, clicked) ==
  LET index == f.rows[clicked].handler
      rowToRemove == RowToRemove(f.rows, index)
  IN IF Len(f.rows) <= 1
     THEN [f EXCEPT !.last = LastOp("removeStop", clicked, 0, Len(f.rows),
                                    AtLeastOneStopAlert)]
     ELSE IF rowToRemove # 0
     THEN [stopCount |-> f.stopCount - 1,
           rows |-> updateStopNumbers(WithoutRow(f.rows, rowToRemove)),
           last |-> LastOp("removeStop", clicked, rowToRemove,
                           Len(f.rows), "")]
     ELSE [f EXCEPT !.last = LastOp("removeStop", clicked, 0, Len(f.rows), "")]

\* let stopCount = 1; initStopsContainer: container.innerHTML = ""; addStop()
initStopsContainer ==
  [addStop([stopCount |-> 1, rows |-> <<>>,
            last |-> LastOp("init", 0, 0, 0, "")])
   EXCEPT !.last = LastOp("init", 0, 0, 0, "")]

RowPositions == 1..maxStops

\* No service has been called on its own.
NoApplication == [fn |-> "none", args |-> Null, result |-> Null]

Init ==
  /\ isCalculating = FALSE
  /\ lastResult = Null
  /\ formLoading = FALSE
  /\ view = NoView
  /\ inFlight = 0
  /\ submits = 0
  /\ warnings = 0
  /\ pc = "idle"
  /\ formData = NoFormData
  /\ req = NoRequests
  /\ lookups = <<>>
  /\ geocoded = <<>>
  /\ tokenStore \in TokenStores
  /\ secrets = "null"
  /\ secretsFile \in BOOLEAN
  /\ token = NoToken
  /\ points = <<>>
  /\ traffic = ""
  /\ legs = <<>>
  /\ hasEstimates = FALSE
  /\ pendingLegs = {}
  /\ legOutcomes = <<>>
  /\ caller = "none"
  /\ routeOut = Null
  /\ calls = NoCalls(tokenStore)
  /\ stopsForm = initStopsContainer
  /\ stopClicks = 0
  /\ applied = NoApplication


(***************************************************************************)
(* main: handleCalculate and analyzeOrder                                  *)
(***************************************************************************)
\* A handleCalculate without its guard.  C1 does not hold of it.
BusyNever == FALSE

\* The guard of handleCalculate.
Busy == isCalculating

\* A catch block that resets state.lastResult.  C9 does not hold of it.
ResultAfterErrorCleared(previous) == Null

\* state.lastResult after the catch block: the catch assigns nothing.
ResultAfterError(previous) == previous

ClearedRouter ==
  /\ points' = <<>>
  /\ traffic' = ""
  /\ legs' = <<>>
  /\ hasEstimates' = FALSE
  /\ pendingLegs' = {}
  /\ legOutcomes' = <<>>
  /\ caller' = "none"

\* An end of handleCalculate that releases the flag and the form in the try
\* block only, after renderResults.  C27 does not hold of it.
FinallyInTryOnly(newView, newResult) ==
  /\ view' = newView
  /\ lastResult' = newResult
  /\ isCalculating' = (newView.kind = "error")
  /\ formLoading' = (newView.kind = "error")
  /\ inFlight' = inFlight - 1
  /\ pc' = "idle"
  /\ lookups' = <<>>
  /\ geocoded' = <<>>
  /\ token' = NoToken
  /\ formData' = NoFormData
  /\ ClearedRouter

\* The end of handleCalculate: try or catch, then finally.  The locals of
\* the finished analyzeOrder are dropped.
Finally(newView, newResult) ==
  /\ view' = newView
  /\ lastResult' = newResult
  /\ isCalculating' = FALSE
  /\ formLoading' = FALSE
  /\ inFlight' = inFlight - 1
  /\ pc' = "idle"
  /\ lookups' = <<>>
  /\ geocoded' = <<>>
  /\ token' = NoToken
  /\ formData' = NoFormData
  /\ ClearedRouter

Pending(ls) == {i \in DOMAIN ls : ls[i].status = "pending"}

CountVia(ls, via) == Cardinality({i \in DOMAIN ls : ls[i].via = via})

\* handleCalculate(fd) up to the first await of analyzeOrder: the guard, the
\* loading state, and geocodeMultiple starting one geocodeAddress per
\* address, each issuing its request.
HandleCalculate(fd) ==
  /\ submits < MaxSubmits
  /\ submits' = submits + 1
  /\ IF Busy
     THEN /\ warnings' = warnings + 1
          /\ UNCHANGED <<appVars, pc, formData, req, geoVars, tokenStore,
                          secrets, secretsFile, token, routerVars, routeOut, applied,
                  stopsForm, stopClicks>>
     ELSE LET addresses == <<fd.currentLocation, fd.pickup>> \o fd.stops
              ls == [i \in 1 .. Len(addresses) |-> NewLookup(addresses[i])]
          IN  /\ isCalculating' = TRUE
              /\ formLoading' = TRUE
              /\ view' = LoadingView
              /\ inFlight' = inFlight + 1
              /\ pc' = "geocode"
              /\ formData' = fd
              /\ lookups' = ls
              /\ geocoded' = <<>>
              /\ req' = [NoRequests EXCEPT !.addresses = Len(addresses),
                                           !.search = CountVia(ls, "search"),
                                           !.reverse = CountVia(ls, "reverse")]
              /\ UNCHANGED <<lastResult, tokenStore, secrets, secretsFile,
                              token, routerVars, routeOut, warnings>>
  /\ UNCHANGED <<calls, applied, stopsForm, stopClicks>>

\* A join that files each value in the first free slot, that is in order of
\* completion.  C7 does not hold of it.
ResolveElementByArrival(ls, i, l) ==
  LET k == CHOOSE j \in DOMAIN ls :
             /\ ls[j].loc = NoLocation
             /\ \A h \in 1 .. (j - 1) : ls[h].loc # NoLocation
  IN  [ls EXCEPT ![i].status = l.status, ![i].outcome = l.outcome,
                 ![k].loc = l.loc]

\* Promise.all keeps the value of each promise at the index of that promise.
ResolveElement(ls, i, l) == [ls EXCEPT ![i] = l]

\* Promise.all fulfils with the array of those values.
JoinResults(ls) == [i \in DOMAIN ls |-> ls[i].loc]

\* The request of lookup i ends.  A failed forward search rejects the
\* Promise.all, which throws out of analyzeOrder into the catch of
\* handleCalculate.  The other lookups of the batch stay outstanding, but
\* nobody awaits them any more: their results are dropped with the batch.
LookupResponds(i, outcome) ==
  /\ pc = "geocode"
  /\ i \in Pending(lookups)
  /\ outcome \in
       (IF lookups[i].via = "reverse" THEN ReverseOutcomes ELSE SearchOutcomes)
  /\ LET l == LookupResult(lookups[i], outcome)
         ls == ResolveElement(lookups, i, l)
     IN  IF l.status = "failed"
         THEN /\ Finally(ErrorView(l.via, 0), ResultAfterError(lastResult))
              /\ UNCHANGED <<submits, warnings, req, tokenStore, secrets,
                              secretsFile, routeOut>>
         ELSE /\ lookups' = ls
              /\ UNCHANGED <<appVars, submits, warnings, pc, formData, req, geocoded,
                              tokenStore, secrets, secretsFile, token,
                              routerVars, routeOut>>
  /\ UNCHANGED <<calls, applied, stopsForm, stopClicks>>

\* fetchTokenWithCredentials once loadSecrets has returned: without
\* credentials it returns null and getValidToken falls back to storedToken.
AfterSecrets(loaded) ==
  IF loaded = "creds"
  THEN /\ pc' = "token"
       /\ req' = [req EXCEPT !.token = @ + 1]
  ELSE /\ pc' = "gotToken"
       /\ UNCHANGED req

\* Promise.all resolves: analyzeOrder takes the locations and calls
\* getValidToken, which returns the stored token when it has not expired.
BatchResolved ==
  /\ pc = "geocode"
  /\ lookups # <<>>
  /\ Pending(lookups) = {}
  /\ geocoded' = JoinResults(lookups)
  /\ lookups' = <<>>
  /\ token' = tokenStore.token
  /\ IF tokenStore.token # NoToken /\ ~isTokenExpired(tokenStore)
     THEN pc' = "gotToken" /\ UNCHANGED req
     ELSE IF secrets = "null"
          THEN pc' = "secrets" /\ UNCHANGED req
          ELSE AfterSecrets(secrets)
  /\ UNCHANGED <<appVars, submits, warnings, formData, tokenStore, secrets,
                  secretsFile, routerVars, routeOut>>
  /\ UNCHANGED <<calls, applied, stopsForm, stopClicks>>

\* loadSecrets: the import of secrets.js has ended.
SecretsLoaded ==
  /\ pc = "secrets"
  /\ secrets' = IF secretsFile THEN "creds" ELSE "false"
  /\ AfterSecrets(secrets')
  /\ UNCHANGED <<appVars, submits, warnings, formData, geoVars, tokenStore,
                  secretsFile, token, routerVars, routeOut, applied,
                  stopsForm, stopClicks>>
  /\ UNCHANGED <<calls, applied, stopsForm, stopClicks>>

\* The token request of fetchTokenWithCredentials ends.
TokenResponds(outcome) ==
  /\ pc = "token"
  /\ outcome \in TokenOutcomes
  /\ IF outcome = "ok"
     THEN /\ tokenStore' = storeToken(tokenStore, "fetched", "future")
          /\ token' = "fetched"
     ELSE UNCHANGED <<tokenStore, token>>
  /\ pc' = "gotToken"
  /\ UNCHANGED <<appVars, submits, warnings, formData, req, geoVars, secrets,
                  secretsFile, routerVars, routeOut>>
  /\ UNCHANGED <<calls, applied, stopsForm, stopClicks>>


\* The report analyzeOrder returns.
ReportOf(fd, locations, route, efficiency, fuel) ==
  LET stopCoords == SubSeq(locations, 3, Len(locations))
      waitTime == calculateTotalWaitTime(stopCoords, fd.waitOverrides,
                                         DefaultPickupWaitMinutes)
      profitability ==
        calculateProfitability(
          [fare |-> fd.fare, fuelCost |-> fuel.cost,
           travelMinutes |-> route.totalTravelMinutes,
           waitMinutes |-> Minutes(waitTime.total),
           pickupWaitMinutes |-> Minutes(waitTime.pickupWait)])
  IN  [kind |-> "report",
       locations |-> [current |-> locations[1], pickup |-> locations[2],
                      stops |-> stopCoords],
       route |-> route,
       fuel |-> fuel,
       waitTime |-> waitTime,
       profitability |-> profitability,
       inputs |-> [fare |-> fd.fare, efficiency |-> efficiency,
                   petrolPrice |-> fd.petrolPrice]]

\* analyzeOrder from the return of calculateMultiStopRoute to its own return
\* or throw, and handleCalculate from there to its end.
AfterRoute(route) ==
  LET efficiency == ResolveEfficiency(formData)
  IN  IF EfficiencyRejected(efficiency)
      THEN Finally(ErrorView("efficiency", efficiency),
                   ResultAfterError(lastResult))
      ELSE LET fuelCall == FuelCostCall(route.totalDistanceKm, efficiency,
                                        formData.petrolPrice)
           IN  IF fuelCall.threw
               THEN Finally(IF fuelCall.message = "Invalid fuel efficiency"
                            THEN ErrorView("fuelEfficiency", efficiency)
                            ELSE ErrorView("petrolPrice", formData.petrolPrice),
                            ResultAfterError(lastResult))
               ELSE LET report == ReportOf(formData, geocoded, route,
                                           efficiency, fuelCall.value)
                    IN  Finally(ResultsView(report), report)

\* calculateMultiStopRoute(pts, tok, tc) up to its first await: the guard,
\* the traffic condition, and the routing call of the first leg.
StartRoute(pts, tok, tc, who) ==
  IF TooFewPoints(pts)
  THEN IF who = "direct"
       THEN /\ routeOut' = [kind |-> "error", route |-> Null]
            /\ pc' = "idle"
            /\ points' = pts
            /\ traffic' = ""
            /\ legs' = <<>>
            /\ hasEstimates' = FALSE
            /\ pendingLegs' = {}
            /\ legOutcomes' = <<>>
            /\ caller' = who
            /\ token' = tok
            /\ UNCHANGED <<appVars, geoVars, req, formData>>
       ELSE /\ Finally(ErrorView("points", Len(pts)),
                       ResultAfterError(lastResult))
            /\ UNCHANGED <<routeOut, req>>
  ELSE /\ \E h \in Hours : traffic' = TrafficFor(tc, h)
       /\ points' = pts
       /\ legs' = <<>>
       /\ hasEstimates' = FALSE
       /\ legOutcomes' = <<>>
       /\ pendingLegs' = CallsToIssue(0, Len(pts))
       /\ req' = [req EXCEPT !.route = @ + Cardinality(pendingLegs')]
       /\ caller' = who
       /\ token' = tok
       /\ pc' = "route"
       /\ routeOut' = IF who = "direct" THEN Null ELSE routeOut
       /\ UNCHANGED <<appVars, geoVars, formData>>

\* analyzeOrder has its token and calls calculateMultiStopRoute.
EnterRoute ==
  /\ pc = "gotToken"
  /\ StartRoute(geocoded, token, formData.trafficCondition, "analyze")
  /\ UNCHANGED <<submits, warnings, tokenStore, secrets, secretsFile>>
  /\ UNCHANGED <<calls, applied, stopsForm, stopClicks>>

\* The routing call of leg i ends: the leg (or its estimate) is pushed, and
\* the loop either issues the next call or calculateMultiStopRoute returns.
LegResponds(i, outcome) ==
  /\ pc = "route"
  /\ i \in pendingLegs
  /\ outcome \in RouteOutcomes
  /\ LET leg == LegFor(points[i], points[i + 1], outcome, traffic)
         legs1 == Append(legs, leg)
         he1 == HasEstimatesAfter(hasEstimates, leg)
         issue == CallsToIssue(Len(legs1), Len(points))
         waiting == (pendingLegs \ {i}) \cup issue
     IN  IF waiting # {}
         THEN /\ legs' = legs1
              /\ hasEstimates' = he1
              /\ legOutcomes' = Append(legOutcomes, Settled(outcome))
              /\ pendingLegs' = waiting
              /\ req' = [req EXCEPT !.route = @ + Cardinality(issue \ pendingLegs)]
              /\ UNCHANGED <<appVars, pc, geoVars, token, points, traffic,
                              caller, routeOut, formData>>
         ELSE IF caller = "direct"
              THEN /\ routeOut' = [kind |-> "route",
                                    route |-> RouteOf(legs1, he1, traffic)]
                   /\ pc' = "idle"
                   /\ legs' = legs1
                   /\ hasEstimates' = he1
                   /\ legOutcomes' = Append(legOutcomes, Settled(outcome))
                   /\ pendingLegs' = {}
                   /\ UNCHANGED <<appVars, geoVars, token, points, traffic,
                                   caller, req, formData>>
              ELSE /\ AfterRoute(RouteOf(legs1, he1, traffic))
                   /\ UNCHANGED <<routeOut, req>>
  /\ UNCHANGED <<submits, warnings, tokenStore, secrets, secretsFile>>
  /\ UNCHANGED <<calls, applied, stopsForm, stopClicks>>

\* calculateMultiStopRoute called on its own.
DirectPoint(k) == CoordinateLocation(PairInput(MinLat + (k % 3), MinLng + k))
DirectPointLists ==
  {[i \in 1 .. n |-> DirectPoint(i)] : n \in 0 .. MaxDirectPoints}

RouteDirect(pts, tok, tc) ==
  /\ pc = "idle"
  /\ caller = "none"
  /\ StartRoute(pts, tok, tc, "direct")
  /\ UNCHANGED <<submits, warnings, formData, tokenStore, secrets, secretsFile>>
  /\ UNCHANGED <<calls, applied, stopsForm, stopClicks>>

(***************************************************************************)
(* api/onemap: getValidToken called by init and by a calculation at once   *)
(***************************************************************************)
\* What localStorage can hold when the page loads: nothing, a token typed in
\* earlier (no expiry), or a token fetched earlier with its expiry.
StoresAtLoad ==
  {[token |-> NoToken, expiry |-> "none"],
   [token |-> "manual", expiry |-> "none"],
   [token |-> "old", expiry |-> "past"],
   [token |-> "old", expiry |-> "future"]}

\* data.access_token of the response to the request of caller p.
FreshToken(p) == IF p = "init" THEN "tokenInit" ELSE "tokenCalc"

\* getValidToken returns the stored token without a refresh.
StoredTokenValid(store) == store.token # NoToken /\ ~isTokenExpired(store)

\* A refresh that failed and took the stored token with it.  C12 does not
\* hold of it.
StoreAfterFailedFetchCleared(store) == [store EXCEPT !.token = NoToken]

\* The store after a refresh that failed: the failure paths of
\* fetchTokenWithCredentials write nothing.
StoreAfterFailedFetch(store) == store

\* One getValidToken run alone from `store`: what it returns, the store it
\* leaves and the token requests it sends, its request ending in `outcome`.
SeqCall(store, creds, outcome, fresh) ==
  IF StoredTokenValid(store) \/ ~creds
  THEN [ret |-> store.token, store |-> store, requests |-> 0]
  ELSE IF outcome = "ok"
       THEN [ret |-> fresh, store |-> storeToken(store, fresh, "future"),
             requests |-> 1]
       ELSE [ret |-> store.token, store |-> StoreAfterFailedFetch(store),
             requests |-> 1]

\* The two calls run one after the other, `first` first.
SeqPair(store, creds, first, second, o1, o2) ==
  LET r1 == SeqCall(store, creds, o1, FreshToken(first))
      r2 == SeqCall(r1.store, creds, o2, FreshToken(second))
  IN  [ret |-> [c \in Callers |-> IF c = first THEN r1.ret ELSE r2.ret],
       store |-> r2.store,
       requests |-> r1.requests + r2.requests]

\* Every outcome of a sequential execution of the two calls.
SequentialOutcomes(store, creds) ==
  {SeqPair(store, creds, "init", "calc", o1, o2) : o1, o2 \in TokenOutcomes}
    \cup
  {SeqPair(store, creds, "calc", "init", o1, o2) : o1, o2 \in TokenOutcomes}

\* fetchTokenWithCredentials of a call once loadSecrets has returned: without
\* credentials it returns null and getValidToken returns its storedToken.
CallAfterSecrets(c, loaded) ==
  IF loaded = "creds"
  THEN [c EXCEPT !.pc = "token"]
  ELSE [c EXCEPT !.pc = "done", !.ret = c.storedToken]

\* The token request a call sends when it reaches the fetch.
RequestsSentBy(c) == IF c.pc = "token" THEN 1 ELSE 0

\* getValidToken of caller p up to its first await.
GetValidToken(p) ==
  /\ pc = "idle"
  /\ calls[p].pc = "idle"
  /\ LET c0 == [calls[p] EXCEPT !.storedToken = tokenStore.token]
         c1 == IF StoredTokenValid(tokenStore)
               THEN [c0 EXCEPT !.pc = "done", !.ret = tokenStore.token]
               ELSE IF secrets = "null"
                    THEN [c0 EXCEPT !.pc = "secrets"]
                    ELSE CallAfterSecrets(c0, secrets)
     IN  /\ calls' = [calls EXCEPT ![p] = c1]
         /\ req' = [req EXCEPT !.token = @ + RequestsSentBy(c1)]
  /\ UNCHANGED <<appVars, submits, warnings, pc, formData, geoVars, tokenStore,
                  secrets, secretsFile, token, routerVars, routeOut, applied,
                  stopsForm, stopClicks>>

\* loadSecrets of caller p: the import of secrets.js has ended.
CallSecretsLoaded(p) ==
  /\ calls[p].pc = "secrets"
  /\ secrets' = IF secretsFile THEN "creds" ELSE "false"
  /\ LET c1 == CallAfterSecrets(calls[p], secrets')
     IN  /\ calls' = [calls EXCEPT ![p] = c1]
         /\ req' = [req EXCEPT !.token = @ + RequestsSentBy(c1)]
  /\ UNCHANGED <<appVars, submits, warnings, pc, formData, geoVars, tokenStore,
                  secretsFile, token, routerVars, routeOut, applied,
                  stopsForm, stopClicks>>

\* The token request of caller p ends.
CallTokenResponds(p, outcome) ==
  /\ calls[p].pc = "token"
  /\ outcome \in TokenOutcomes
  /\ IF outcome = "ok"
     THEN /\ tokenStore' = storeToken(tokenStore, FreshToken(p), "future")
          /\ calls' = [calls EXCEPT ![p].pc = "done", ![p].ret = FreshToken(p)]
     ELSE /\ tokenStore' = StoreAfterFailedFetch(tokenStore)
          /\ calls' = [calls EXCEPT ![p].pc = "done",
                                    ![p].ret = calls[p].storedToken]
  /\ UNCHANGED <<appVars, submits, warnings, pc, formData, req, geoVars,
                  secrets, secretsFile, token, routerVars, routeOut, applied,
                  stopsForm, stopClicks>>

Next ==
  \/ \E fd \in FormDatas : HandleCalculate(fd)
  \/ \E i \in 1 .. (MaxStops + 2), o \in SearchOutcomes \cup ReverseOutcomes :
       LookupResponds(i, o)
  \/ BatchResolved
  \/ SecretsLoaded
  \/ \E o \in TokenOutcomes : TokenResponds(o)
  \/ EnterRoute
  \/ \E i \in 1 .. (MaxStops + 1), o \in RouteOutcomes : LegResponds(i, o)

Spec == Init /\ [][Next]_vars

NextRouter ==
  \/ \E pts \in DirectPointLists, tok \in {NoToken, "manual"},
        tc \in TrafficConditions \cup {""} : RouteDirect(pts, tok, tc)
  \/ \E i \in 1 .. MaxDirectPoints, o \in RouteOutcomes : LegResponds(i, o)

SpecRouter == Init /\ [][NextRouter]_vars

\* The page with orders whose points all coincide.
NextSamePoint ==
  \/ \E fd \in SamePointForms : HandleCalculate(fd)
  \/ \E i \in 1 .. (MaxStops + 2), o \in SearchOutcomes : LookupResponds(i, o)
  \/ BatchResolved
  \/ SecretsLoaded
  \/ \E o \in TokenOutcomes : TokenResponds(o)
  \/ EnterRoute
  \/ \E i \in 1 .. (MaxStops + 1), o \in RouteOutcomes : LegResponds(i, o)

SpecSamePoint == Init /\ [][NextSamePoint]_vars

\* The page has just loaded: nothing has been submitted.
InitToken ==
  /\ isCalculating = FALSE
  /\ lastResult = Null
  /\ formLoading = FALSE
  /\ view = NoView
  /\ inFlight = 0
  /\ submits = 0
  /\ warnings = 0
  /\ pc = "idle"
  /\ formData = NoFormData
  /\ req = NoRequests
  /\ lookups = <<>>
  /\ geocoded = <<>>
  /\ tokenStore \in StoresAtLoad
  /\ secrets = "null"
  /\ secretsFile \in BOOLEAN
  /\ token = NoToken
  /\ points = <<>>
  /\ traffic = ""
  /\ legs = <<>>
  /\ hasEstimates = FALSE
  /\ pendingLegs = {}
  /\ legOutcomes = <<>>
  /\ caller = "none"
  /\ routeOut = Null
  /\ calls = NoCalls(tokenStore)
  /\ stopsForm = initStopsContainer
  /\ stopClicks = 0
  /\ applied = NoApplication

NextToken ==
  \/ \E p \in Callers : GetValidToken(p)
  \/ \E p \in Callers : CallSecretsLoaded(p)
  \/ \E p \in Callers, o \in TokenOutcomes : CallTokenResponds(p, o)

SpecToken == InitToken /\ [][NextToken]_vars

\* initTokenField: the change listener of the token field stores what was
\* typed, without an expiry.
TokenEntered(tok) ==
  /\ tokenStore' = storeToken(tokenStore, tok, "none")
  /\ UNCHANGED <<appVars, submits, warnings, pc, formData, req, geoVars,
                  secrets, secretsFile, token, routerVars, routeOut, calls,
                  applied, stopsForm, stopClicks>>

\* clearToken called.
ClearToken ==
  /\ tokenStore' = clearToken(tokenStore)
  /\ UNCHANGED <<appVars, submits, warnings, pc, formData, req, geoVars,
                  secrets, secretsFile, token, routerVars, routeOut, calls,
                  applied, stopsForm, stopClicks>>

\* What the user types into the token field.
TypedTokens == {"manual"}

\* The store under getValidToken, manual entry and clearToken in any order.
NextStore ==
  \/ \E p \in Callers : GetValidToken(p)
  \/ \E p \in Callers : CallSecretsLoaded(p)
  \/ \E p \in Callers, o \in TokenOutcomes : CallTokenResponds(p, o)
  \/ \E tok \in TypedTokens : TokenEntered(tok)
  \/ ClearToken

SpecStore == InitToken /\ [][NextStore]_vars

(***************************************************************************)
(* The services called on their own: an input is drawn, then the service   *)
(* is applied to it.                                                       *)
(***************************************************************************)
FareInputs == {Cents(c) : c \in 0 .. MaxFareCents}
RateInputs == {Cents(c) : c \in (0 - MaxRateCents) .. MaxRateCents}
ProfitabilityInputs ==
  [fare : {Cents(60), Cents(90)}, fuelCost : {0, Cents(12), Cents(40)},
   travelMinutes : {0, Minutes(12)}, waitMinutes : {0, Minutes(10)},
   pickupWaitMinutes : {0, Minutes(6)}]

FuelInputs ==
  [distance : {0, 1, 4500},
   efficiency : (0 - MaxOverEfficiency) .. (MaxEfficiency + MaxOverEfficiency),
   price : {0 - 1, 0, 1, 287}]

WaitStops == {[buildingType |-> t] : t \in BuildingTypes \cup {"unknown"}}
WaitOverrides == {NoOverride, NullOverride, NumberOverride(0), NumberOverride(4)}
WaitInputs ==
  UNION {[stops : [1 .. n -> WaitStops], overrides : [1 .. n -> WaitOverrides],
          pickupWaitMinutes : {5, 6}] : n \in 0 .. MaxWaitStops}

ClassifierInputs ==
  [BUILDING : {<<>>, <<"ALJUNIED">>}, SEARCHVAL : {<<>>},
   ADDRESS : UNION {[1 .. n -> Words] : n \in 0 .. MaxWords}]

TrafficInputs == [trafficCondition : TrafficConditions \cup {""}, hour : Hours]

\* Building names and roads of a place without a block number.
PlaceNames ==
  {<<>>, <<"ALJUNIED">>, <<"ALJUNIED", "TOWER">>, <<"ALJUNIED", "CENTRE">>,
   <<"ALJUNIED", "PLAZA">>, <<"ALJUNIED", "MALL">>, <<"ALJUNIED", "CONDO">>,
   <<"ALJUNIED", "WAREHOUSE">>}
PlaceInputs == [name : PlaceNames, road : {<<>>, <<"ALJUNIED", "ROAD">>}]

\* The reverse-geocode result and the search result for one place.
ReverseResultOf(place) ==
  [BUILDINGNAME |-> place.name, ROAD |-> place.road, BLOCK |-> ""]
SearchResultOf(place) ==
  [BUILDING |-> place.name, SEARCHVAL |-> place.name,
   ADDRESS |-> place.name \o place.road]

\* calculateMinimumFare(fuelCost, totalTimeMinutes, targetHourlyRate):
\* fuelCost + targetHourlyRate * (totalTimeMinutes / 60), the product taken
\* in two steps so that it stays in the integers TLC computes with.
calculateMinimumFare(fuelCost, totalTimeMinutes, targetHourlyRate) ==
  LET perHour == 60 * Minutes(1)
      desiredProfit ==
        (targetHourlyRate \div perHour) * totalTimeMinutes
          + ((targetHourlyRate % perHour) * totalTimeMinutes) \div perHour
  IN  fuelCost + desiredProfit

\* getInsights(result).minimumFareForGood
minimumFareForGood(result) ==
  calculateMinimumFare(result.fuelCost, result.totalTimeMinutes,
                       PROFIT_THRESHOLDS.good.min)

(***************************************************************************)
(* ui/form and utils/validation: from the rows of the form to the analysis *)
(***************************************************************************)
\* The value of a wait input (type="number"): empty, or a number.
EmptyText == [kind |-> "empty", number |-> 0]
NumberText(n) == [kind |-> "number", number |-> n]

\* parseNumericInput(value, defaultValue): parseFloat, the default on NaN.
parseNumericInput(value, defaultValue) ==
  IF value.kind = "number" THEN value.number ELSE defaultValue

\* input.trim().length: the named addresses stand for full addresses, a
\* coordinate pair is written with some ten characters.
TrimmedLength(input) ==
  IF input.kind = "pair" THEN 10 ELSE IF input.term = "" THEN 0 ELSE 20

\* getFormData: the values of the .stop-input fields, the empty ones dropped.
StopValues(rows) ==
  SelectSeq([i \in 1 .. Len(rows) |-> rows[i].address],
            LAMBDA value : TrimmedLength(value) > 0)

\* getFormData: waitOverrides[index] for every .wait-input with a value, by
\* the position of the input among the rows.
WaitOverridesOf(rows) ==
  [index \in 1 .. Len(rows) |->
     IF rows[index].wait # EmptyText
     THEN NumberOverride(parseNumericInput(rows[index].wait, 0))
     ELSE NoOverride]

\* getFormData, with the fields outside the stop rows as given.
getFormData(rows) ==
  [currentLocation |-> PairInput(15, 1041), pickup |-> TextInput("A"),
   stops |-> StopValues(rows), fare |-> Dollars(10),
   bikeModel |-> "ybr125", customEfficiency |-> 0, petrolPrice |-> 287,
   waitOverrides |-> WaitOverridesOf(rows), trafficCondition |-> "heavy"]

\* CONFIG.limits
minFare == 0
maxFare == 500

validateAddressInput(input) ==
  TrimmedLength(input) >= 2 /\ TrimmedLength(input) <= 200
validateFare(fare) == fare >= Dollars(minFare) /\ fare <= Dollars(maxFare)
\* the price is in cents per litre
validatePetrolPrice(price) == price > 0 /\ price <= 1000
validateEfficiency(efficiency) == efficiency > 0 /\ efficiency <= 100

\* validateFormData(formData).isValid
validateFormData(fd) ==
  /\ validateAddressInput(fd.currentLocation)
  /\ validateAddressInput(fd.pickup)
  /\ Len(fd.stops) # 0
  /\ \A index \in 1 .. Len(fd.stops) : validateAddressInput(fd.stops[index])
  /\ validateFare(fd.fare)
  /\ validatePetrolPrice(fd.petrolPrice)
  /\ fd.bikeModel = "custom" => validateEfficiency(fd.customEfficiency)

\* handleFormSubmit, then steps 5 and 6 of analyzeOrder for the form data it
\* hands over, every address found and the route taking travelMinutes.
SubmitRows(rows, travelMinutes) ==
  LET fd == getFormData(rows)
      stopCoords == [i \in 1 .. Len(fd.stops) |-> SearchLocation(fd.stops[i])]
      waitTime == calculateTotalWaitTime(stopCoords, fd.waitOverrides,
                                         DefaultPickupWaitMinutes)
      profitability ==
        calculateProfitability(
          [fare |-> fd.fare, fuelCost |-> 0, travelMinutes |-> travelMinutes,
           waitMinutes |-> Minutes(waitTime.total),
           pickupWaitMinutes |-> Minutes(waitTime.pickupWait)])
  IN  IF validateFormData(fd)
      THEN [isValid |-> TRUE, formData |-> fd, waitTime |-> waitTime,
            totalTimeMinutes |-> profitability.totalTimeMinutes]
      ELSE [isValid |-> FALSE, formData |-> fd, waitTime |-> Null,
            totalTimeMinutes |-> 0]

\* The stop rows that are filled in before a submit.
MaxFormRows == 2
RowAddresses == {TextInput(""), TextInput("A"), TextInput("B")}
RowWaits == {EmptyText, NumberText(3), NumberText(0 - 5), NumberText(75)}
FormRows ==
  UNION {[1 .. n -> [address : RowAddresses, wait : RowWaits]] :
           n \in 1 .. MaxFormRows}
SubmitInputs == [rows : FormRows, travelMinutes : {0, Minutes(12)}]

\* Orders whose minimum fare for a good rating is asked for.
MinimumFareInputs ==
  [fare : {Cents(60), Dollars(10)}, fuelCost : {0, Cents(40), Cents(120)},
   travelMinutes : {0, Minutes(12)}, waitMinutes : {0, Minutes(10)},
   pickupWaitMinutes : {0, Minutes(6)}]

Drawn(kind, args) ==
  [fn |-> "none", args |-> [kind |-> kind, value |-> args], result |-> Null]

Applied(fn, result) == [applied EXCEPT !.fn = fn, !.result = result]

IsDrawn(kind) == applied.fn = "none" /\ applied.args.kind = kind

restVars ==
  <<isCalculating, lastResult, formLoading, view, inFlight, submits,
    warnings, pc, formData, req, lookups, geocoded, tokenStore, secrets,
    secretsFile, token, points, traffic, legs, hasEstimates, pendingLegs,
    legOutcomes, caller, routeOut, calls, stopsForm, stopClicks>>

ApplyFareBreakdown ==
  /\ IsDrawn("fare")
  /\ applied' = Applied("calculateFareBreakdown",
                        calculateFareBreakdown(applied.args.value))
  /\ UNCHANGED restVars

ApplyRating ==
  /\ IsDrawn("rate")
  /\ applied' = Applied("getRating", getRating(applied.args.value))
  /\ UNCHANGED restVars

ApplyProfitability ==
  /\ IsDrawn("profitability")
  /\ applied' = Applied("calculateProfitability",
                        calculateProfitability(applied.args.value))
  /\ UNCHANGED restVars

ApplyFuelCost ==
  /\ IsDrawn("fuel")
  /\ applied' = Applied("calculateFuelCost",
                        FuelCostCall(applied.args.value.distance,
                                     applied.args.value.efficiency,
                                     applied.args.value.price))
  /\ UNCHANGED restVars

ApplyTotalWaitTime ==
  /\ IsDrawn("wait")
  /\ applied' = Applied("calculateTotalWaitTime",
                        calculateTotalWaitTime(applied.args.value.stops,
                                               applied.args.value.overrides,
                                               applied.args.value.pickupWaitMinutes))
  /\ UNCHANGED restVars

ApplyDetectBuildingType ==
  /\ IsDrawn("classify")
  /\ applied' = Applied("detectBuildingType",
                        detectBuildingType(applied.args.value))
  /\ UNCHANGED restVars

ApplyTraffic ==
  /\ IsDrawn("traffic")
  /\ applied' = Applied("detectTrafficCondition",
                        [detected |-> detectTrafficCondition(applied.args.value.hour),
                         traffic |-> TrafficFor(applied.args.value.trafficCondition,
                                                applied.args.value.hour)])
  /\ UNCHANGED restVars

ApplyBothClassifiers ==
  /\ IsDrawn("place")
  /\ applied' = Applied("classifyPlace",
                        [reverse |-> detectBuildingTypeFromReverse(
                                       ReverseResultOf(applied.args.value)),
                         forward |-> detectBuildingType(
                                       SearchResultOf(applied.args.value))])
  /\ UNCHANGED restVars

ApplySubmit ==
  /\ IsDrawn("submit")
  /\ applied' = Applied("handleFormSubmit",
                        SubmitRows(applied.args.value.rows,
                                   applied.args.value.travelMinutes))
  /\ UNCHANGED restVars

\* getInsights on the result of an order, then the same order at the fare
\* getInsights returns as minimumFareForGood.
ApplyMinimumFare ==
  /\ IsDrawn("minimumFare")
  /\ LET result == calculateProfitability(applied.args.value)
         minimum == minimumFareForGood(result)
     IN  applied' =
           Applied("getInsights",
                   [result |-> result, minimumFareForGood |-> minimum,
                    atMinimum |->
                      calculateProfitability(
                        [applied.args.value EXCEPT !.fare = minimum])])
  /\ UNCHANGED restVars

InitPure ==
  /\ isCalculating = FALSE
  /\ lastResult = Null
  /\ formLoading = FALSE
  /\ view = NoView
  /\ inFlight = 0
  /\ submits = 0
  /\ warnings = 0
  /\ pc = "idle"
  /\ formData = NoFormData
  /\ req = NoRequests
  /\ lookups = <<>>
  /\ geocoded = <<>>
  /\ tokenStore = [token |-> NoToken, expiry |-> "none"]
  /\ secrets = "null"
  /\ secretsFile = FALSE
  /\ token = NoToken
  /\ points = <<>>
  /\ traffic = ""
  /\ legs = <<>>
  /\ hasEstimates = FALSE
  /\ pendingLegs = {}
  /\ legOutcomes = <<>>
  /\ caller = "none"
  /\ routeOut = Null
  /\ calls = NoCalls(tokenStore)
  /\ stopsForm = initStopsContainer
  /\ stopClicks = 0
  /\ \/ \E g \in FareInputs : applied = Drawn("fare", g)
     \/ \E r \in RateInputs : applied = Drawn("rate", r)
     \/ \E p \in ProfitabilityInputs : applied = Drawn("profitability", p)
     \/ \E f \in FuelInputs : applied = Drawn("fuel", f)
     \/ \E w \in WaitInputs : applied = Drawn("wait", w)
     \/ \E d \in ClassifierInputs : applied = Drawn("classify", d)
     \/ \E t \in TrafficInputs : applied = Drawn("traffic", t)
     \/ \E pl \in PlaceInputs : applied = Drawn("place", pl)
     \/ \E sb \in SubmitInputs : applied = Drawn("submit", sb)
     \/ \E mf \in MinimumFareInputs : applied = Drawn("minimumFare", mf)

NextPure ==
  \/ ApplyFareBreakdown
  \/ ApplyRating
  \/ ApplyProfitability
  \/ ApplyFuelCost
  \/ ApplyTotalWaitTime
  \/ ApplyDetectBuildingType
  \/ ApplyTraffic
  \/ ApplyBothClassifiers
  \/ ApplySubmit
  \/ ApplyMinimumFare

SpecPure == InitPure /\ [][NextPure]_vars

(***************************************************************************)
(* Properties                                                              *)
(***************************************************************************)

\* C1: at most one calculation is in flight at any time, and a call to
\* handleCalculate that arrives while state.isCalculating is true is refused:
\* it issues no request, renders nothing, leaves lastResult and the running
\* analysis as they are, whatever suspension point the analysis is at.
C1_AtMostOneInFlight ==
  /\ [](inFlight <= 1 /\ (isCalculating <=> inFlight = 1)
        /\ (isCalculating <=> pc # "idle"))
  /\ [][(isCalculating /\ submits' # submits) =>
          /\ warnings' = warnings + 1
          /\ UNCHANGED <<isCalculating, lastResult, formLoading, view,
                         inFlight, pc, formData, req, lookups, geocoded,
                         tokenStore, secrets, token, points, traffic, legs,
                         hasEstimates, pendingLegs, legOutcomes, caller>>]_vars

\* A call was refused while the routing of the running analysis was under way.
C1_Witness == warnings >= 1 /\ isCalculating /\ inFlight = 1 /\ pc = "route"

\* C2: calculateMultiStopRoute never fails because of the routing service.
\* Called with at least 2 points it always has a routing call outstanding
\* until it returns, it returns a Route with a leg per pair of consecutive
\* points, and every leg whose routing call threw is an estimate.
C2_RouterNeverFails ==
  /\ routeOut.kind = "error" => Len(points) < MinPoints
  /\ (caller = "direct" /\ Len(points) >= MinPoints) =>
       /\ pc = "route" => pendingLegs # {}
       /\ pc = "idle" =>
            /\ routeOut.kind = "route"
            /\ routeOut.route.legs = legs
            /\ Len(legs) = Len(points) - 1
       /\ Len(legOutcomes) = Len(legs)
       /\ \A i \in 1 .. Len(legs) :
            legOutcomes[i] = "threw" => legs[i].isEstimate

\* A route was returned whose first routing call threw and whose second
\* succeeded.
C2_Witness ==
  /\ routeOut.kind = "route"
  /\ Len(legOutcomes) >= 2
  /\ legOutcomes[1] = "threw"
  /\ legOutcomes[2] = "ok"
  /\ ~routeOut.route.legs[2].isEstimate

\* C3: hasEstimates is true exactly when some leg is an estimate, throughout
\* the loop and in the Route returned, and a leg is an estimate exactly when
\* its routing call threw.
C3_HasEstimatesIffSomeEstimate ==
  /\ hasEstimates <=> (\E i \in 1 .. Len(legs) : legs[i].isEstimate)
  /\ \A i \in 1 .. Len(legs) :
       legs[i].isEstimate <=> legOutcomes[i] = "threw"
  /\ routeOut.kind = "route" =>
       (routeOut.route.hasEstimates <=>
          (\E i \in DOMAIN routeOut.route.legs :
             routeOut.route.legs[i].isEstimate))

\* A route was returned with an estimate followed by a leg of the service.
C3_Witness ==
  /\ routeOut.kind = "route"
  /\ routeOut.route.hasEstimates
  /\ Len(routeOut.route.legs) >= 2
  /\ routeOut.route.legs[1].isEstimate
  /\ ~routeOut.route.legs[Len(routeOut.route.legs)].isEstimate

\* C4: a report over n locations has n - 1 legs, and leg i goes from the
\* address of location i to the address of location i + 1 in the order
\* current location, pickup, stops, whichever legs are estimates; the legs
\* pushed so far during the loop follow the points in the same way.
C4_LegsFollowVisitingOrder ==
  /\ \A i \in 1 .. Len(legs) :
       legs[i].from = points[i].address /\ legs[i].to = points[i + 1].address
  /\ lastResult # Null =>
       LET locs == <<lastResult.locations.current, lastResult.locations.pickup>>
                     \o lastResult.locations.stops
           ls == lastResult.route.legs
       IN  /\ Len(locs) >= MinPoints
           /\ Len(ls) = Len(locs) - 1
           /\ \A i \in 1 .. Len(ls) :
                ls[i].from = locs[i].address /\ ls[i].to = locs[i + 1].address

\* A report whose first leg is an estimate and whose second is not.
C4_Witness ==
  /\ lastResult # Null
  /\ Len(lastResult.route.legs) >= 2
  /\ lastResult.route.legs[1].isEstimate
  /\ ~lastResult.route.legs[2].isEstimate

\* C5: the routing calls of a calculation are issued one at a time: at most
\* one is outstanding, it is the call of the leg after the legs already
\* pushed, and the calls issued are the legs pushed plus the outstanding one.
C5_OneRoutingCallAtATime ==
  /\ Cardinality(pendingLegs) <= 1
  /\ \A i \in pendingLegs : i = Len(legs) + 1
  /\ pc = "route" => req.route = Len(legs) + Cardinality(pendingLegs)

\* The call of the second leg is outstanding, the first leg has been pushed.
C5_Witness == pc = "route" /\ pendingLegs = {2} /\ Len(legs) = 1

\* C6: calculateMultiStopRoute called with fewer than 2 points throws before
\* any routing call is issued and returns no Route.
C6_TooFewPointsRejected ==
  (caller = "direct" /\ Len(points) < MinPoints) =>
     /\ routeOut = [kind |-> "error", route |-> Null]
     /\ pc = "idle"
     /\ req.route = 0
     /\ pendingLegs = {}
     /\ legs = <<>>

\* It was called with a single point and threw.
C6_Witness == caller = "direct" /\ Len(points) = 1 /\ routeOut.kind = "error"

\* C7: geocodeMultiple is all-or-nothing and order-preserving.  The caller
\* holds no location while the batch is outstanding; the array it gets has
\* one location per input, the i-th for the i-th input, whatever order the
\* lookups completed in; after a failed batch it holds none and nothing that
\* needs the locations has been issued.
C7_BatchOrderedAllOrNothing ==
  /\ pc = "geocode" => geocoded = <<>>
  /\ geocoded # <<>> =>
       LET addresses == <<formData.currentLocation, formData.pickup>>
                          \o formData.stops
       IN  /\ Len(geocoded) = Len(addresses)
           /\ \A i \in 1 .. Len(addresses) :
                geocoded[i] \in {SearchLocation(addresses[i]),
                                 ReverseLocation(addresses[i]),
                                 CoordinateLocation(addresses[i])}
  /\ (pc = "idle" /\ view.error.name \in {"search", "reverse"}) =>
       geocoded = <<>> /\ req.token = 0 /\ req.route = 0

\* The batch of a request with a stop has resolved, the reverse lookup of the
\* current location having failed.
C7_Witness ==
  /\ pc = "gotToken"
  /\ Len(geocoded) >= 3
  /\ geocoded[1].address.src = "coords"
  /\ geocoded[2].address.src = "search"

\* C8: geocodeAddress on a pair inside the bounding box (bounds included)
\* issues a reverse lookup and no forward search, and never fails: when the
\* reverse lookup throws, its location carries the input coordinates and the
\* raw coordinates as address, and no error reaches the caller.
C8_CoordinateInputNeverFails ==
  /\ \A i \in DOMAIN lookups :
       LET inp == lookups[i].input
       IN  (inp.kind = "pair" /\ inp.lat >= MinLat /\ inp.lat <= MaxLat
              /\ inp.lng >= MinLng /\ inp.lng <= MaxLng) =>
             /\ lookups[i].via = "reverse"
             /\ lookups[i].status # "failed"
             /\ lookups[i].outcome = "threw" =>
                  /\ lookups[i].status = "ok"
                  /\ lookups[i].loc =
                       [lat |-> inp.lat, lng |-> inp.lng,
                        address |-> [src |-> "coords", term |-> inp.term,
                                     lat |-> inp.lat, lng |-> inp.lng],
                        buildingType |-> "default"]
             /\ lookups[i].outcome = "ok" =>
                  /\ lookups[i].loc.lat = inp.lat
                  /\ lookups[i].loc.lng = inp.lng
  /\ pc = "geocode" =>
       /\ req.reverse =
            Cardinality({i \in DOMAIN lookups :
                           /\ lookups[i].input.kind = "pair"
                           /\ lookups[i].input.lat >= MinLat
                           /\ lookups[i].input.lat <= MaxLat
                           /\ lookups[i].input.lng >= MinLng
                           /\ lookups[i].input.lng <= MaxLng})
       /\ req.search = Len(lookups) - req.reverse
  /\ view.error.name # "reverse"

\* The reverse lookup of a pair on the corner of the box threw and
\* geocodeAddress returned the coordinate-only location.
C8_Witness ==
  \E i \in DOMAIN lookups :
     /\ lookups[i].input.kind = "pair"
     /\ lookups[i].input.lat = MaxLat
     /\ lookups[i].outcome = "threw"
     /\ lookups[i].status = "ok"
     /\ lookups[i].loc.address.src = "coords"

\* C9: a forward search that returns nothing or fails in transport aborts the
\* analysis.  No analysis goes on with a search that threw; the step that
\* ends the geocoding phase with an error renders the error and no report,
\* issues no token or routing call, and leaves state.lastResult as it was.
C9_SearchFailureAborts ==
  /\ [](\A i \in DOMAIN lookups :
          (lookups[i].via = "search" /\ lookups[i].status # "pending") =>
             lookups[i].outcome = "ok")
  /\ [][(pc = "geocode" /\ pc' = "idle") =>
          /\ view'.kind = "error"
          /\ view'.error.name = "search"
          /\ view'.result = Null
          /\ lastResult' = lastResult
          /\ req'.token = 0
          /\ req'.route = 0
          /\ pendingLegs' = {}
          /\ ~isCalculating']_vars

\* A search failed after an earlier request had produced a report: the error
\* is shown and the earlier report is still state.lastResult.
C9_Witness ==
  /\ pc = "idle"
  /\ view.kind = "error"
  /\ view.error.name = "search"
  /\ lastResult # Null

C11_Original ==
  (caller # "none" /\ authToken(token, tokenStore) = NoToken) =>
     /\ req.route = 0
     /\ pendingLegs = {}
     /\ \A i \in 1 .. Len(legs) : legs[i].isEstimate
     /\ routeOut.kind = "route" =>
          \A i \in DOMAIN routeOut.route.legs : routeOut.route.legs[i].isEstimate

\* C12: two overlapping getValidToken calls are safe to race.  Once both have
\* returned, each has returned what it returns in some sequential execution
\* of the two calls from the same store, the store is one a sequential
\* execution ends in, and the token requests sent are at most one more than
\* in a sequential execution.
C12_TokenRaceIsSafe ==
  (calls.init.pc = "done" /\ calls.calc.pc = "done") =>
     LET seq == SequentialOutcomes(calls.start, secretsFile)
     IN  /\ \A p \in Callers : \E q \in seq : q.ret[p] = calls[p].ret
         /\ \E q \in seq : q.store = tokenStore
         /\ \E q \in seq : req.token <= q.requests + 1
         /\ req.token <= Cardinality(Callers)

\* Both calls found the stored token expired, both refreshed, and each
\* returned the token of its own request: the redundant refresh.
C12_Witness ==
  /\ calls.init.pc = "done"
  /\ calls.calc.pc = "done"
  /\ calls.start.token = "old"
  /\ calls.init.ret = "tokenInit"
  /\ calls.calc.ret = "tokenCalc"
  /\ req.token = 2

\* C13: for every gross fare g >= 0, calculateFareBreakdown(g) returns
\* baseFare = g - 0.50, commission = 15% of baseFare, vat = 9% of baseFare,
\* cpfWithholding = 0, platformFee = 0.50, totalDeductions = the sum of the
\* four deductions and netFare = g - totalDeductions; for g = 10.00 that is
\* baseFare 9.50, commission 1.425, vat 0.855 and netFare 7.22.
C13_FareBreakdown ==
  (applied.fn = "calculateFareBreakdown" /\ applied.args.value >= 0) =>
     LET g == applied.args.value
         r == applied.result
     IN  /\ r.grossFare = g
         /\ r.baseFare = g - Cents(50)
         /\ r.commission * 100 = 15 * r.baseFare
         /\ r.vat * 100 = 9 * r.baseFare
         /\ r.cpfWithholding = 0
         /\ r.platformFee = Cents(50)
         /\ r.totalDeductions =
              r.commission + r.vat + r.cpfWithholding + r.platformFee
         /\ r.netFare = g - r.totalDeductions
         /\ r.netFare * 100 = g * 100 - 15 * (g - Cents(50))
                               - 9 * (g - Cents(50)) - Cents(50) * 100
         /\ g = Dollars(10) =>
              /\ r.baseFare = Cents(950)
              /\ r.commission * 10 = Cents(1425)
              /\ r.vat * 10 = Cents(855)
              /\ r.netFare = Cents(722)

\* The breakdown of a fare of 10.00 has been computed.
C13_Witness ==
  /\ applied.fn = "calculateFareBreakdown"
  /\ applied.args.value = Dollars(10)
  /\ applied.result.netFare = Cents(722)

\* C14: the rating is a total partition of hourly rates with inclusive lower
\* bounds: >= 20 excellent, >= 15 good, >= 10 okay, anything else (every
\* negative rate included) poor; 20.00 is excellent, 19.99 good, 15.00 good,
\* 14.99 okay, 10.00 okay and 9.99 poor.
C14_RatingPartition ==
  applied.fn = "getRating" =>
     LET v == applied.args.value
         r == applied.result
     IN  /\ r \in {"excellent", "good", "okay", "poor"}
         /\ r = "excellent" <=> v >= Dollars(20)
         /\ r = "good" <=> (v >= Dollars(15) /\ v < Dollars(20))
         /\ r = "okay" <=> (v >= Dollars(10) /\ v < Dollars(15))
         /\ r = "poor" <=> v < Dollars(10)
         /\ v = Cents(2000) => r = "excellent"
         /\ v = Cents(1999) => r = "good"
         /\ v = Cents(1500) => r = "good"
         /\ v = Cents(1499) => r = "okay"
         /\ v = Cents(1000) => r = "okay"
         /\ v = Cents(999) => r = "poor"

\* A rate exactly on the lower bound of a band has been rated.
C14_Witness ==
  /\ applied.fn = "getRating"
  /\ applied.args.value = Dollars(15)
  /\ applied.result = "good"

\* C15: calculateProfitability never divides by zero: netProfit is netFare
\* less fuelCost, totalTimeMinutes is travel + wait + pickup wait, and
\* profitPerHour is netProfit / (totalTimeMinutes / 60) when totalTimeMinutes
\* is positive and 0 otherwise.
C15_ProfitPerHourGuarded ==
  applied.fn = "calculateProfitability" =>
     LET a == applied.args.value
         r == applied.result
     IN  /\ r.netProfit = r.netFare - a.fuelCost
         /\ r.totalTimeMinutes =
              a.travelMinutes + a.waitMinutes + a.pickupWaitMinutes
         /\ IF r.totalTimeMinutes > 0
            THEN r.profitPerHour =
                   (r.netProfit * 60 * Minutes(1)) \div r.totalTimeMinutes
            ELSE r.profitPerHour = 0

\* An order that takes no time at all and still earns money: the hourly
\* rate is 0.
C15_Witness ==
  /\ applied.fn = "calculateProfitability"
  /\ applied.result.totalTimeMinutes = 0
  /\ applied.result.netProfit > 0
  /\ applied.result.profitPerHour = 0

\* C16: calculateFuelCost fails with an invalid-parameter error exactly when
\* the efficiency is <= 0 or > 100 or the price is <= 0; for every other
\* input with a distance d > 0 it returns litresUsed = d / efficiency and
\* cost = litresUsed * price.
C16_FuelCostRange ==
  applied.fn = "calculateFuelCost" =>
     LET a == applied.args.value
         r == applied.result
     IN  /\ r.threw <=> (a.efficiency <= 0 \/ a.efficiency > 100 \/ a.price <= 0)
         /\ r.threw => r.message \in {"Invalid fuel efficiency",
                                       "Invalid petrol price"}
         /\ (~r.threw /\ a.distance > 0) =>
              /\ r.value.litresUsed * a.efficiency <= a.distance
              /\ a.distance < (r.value.litresUsed + 1) * a.efficiency
              /\ r.value.cost * a.efficiency <= a.distance * a.price
              /\ a.distance * a.price < (r.value.cost + 1) * a.efficiency

\* The largest efficiency that is still in range has been priced.
C16_Witness ==
  /\ applied.fn = "calculateFuelCost"
  /\ applied.args.value.efficiency = 100
  /\ applied.args.value.distance = 4500
  /\ applied.args.value.price = 287
  /\ ~applied.result.threw
  /\ applied.result.value.litresUsed = 45

\* The minutes the fixed table gives a building type.
C18_Table(t) ==
  CASE t = "hdb" -> 3 [] t = "landed" -> 2 [] t = "condo" -> 7
    [] t = "mall" -> 8 [] t = "industrial" -> 5 [] t = "office" -> 10
    [] OTHER -> 5

RECURSIVE C18_Sum(_, _)
C18_Sum(breakdown, n) ==
  IF n = 0 THEN 0 ELSE breakdown[n].minutes + C18_Sum(breakdown, n - 1)

\* C18: calculateTotalWaitTime gives each stop with an override that is
\* neither undefined nor null (0 included) the override's minutes and
\* isOverride = true, every other stop the table's minutes for its building
\* type and isOverride = false; total is the sum of the per-stop minutes,
\* without the pickup wait, which is returned unchanged.
C18_TotalWaitTime ==
  applied.fn = "calculateTotalWaitTime" =>
     LET a == applied.args.value
         r == applied.result
     IN  /\ Len(r.breakdown) = Len(a.stops)
         /\ \A i \in 1 .. Len(a.stops) :
              IF a.overrides[i].kind = "number"
              THEN /\ r.breakdown[i].minutes = a.overrides[i].minutes
                   /\ r.breakdown[i].isOverride
              ELSE /\ r.breakdown[i].minutes =
                        C18_Table(a.stops[i].buildingType)
                   /\ ~r.breakdown[i].isOverride
         /\ r.total = C18_Sum(r.breakdown, Len(r.breakdown))
         /\ r.pickupWait = a.pickupWaitMinutes

\* Two stops, the first overridden to 0 minutes and the second, an office,
\* with a null override: the total is the office's 10 minutes.
C18_Witness ==
  /\ applied.fn = "calculateTotalWaitTime"
  /\ Len(applied.args.value.stops) = 2
  /\ applied.args.value.overrides[1] = NumberOverride(0)
  /\ applied.args.value.overrides[2] = NullOverride
  /\ applied.args.value.stops[2].buildingType = "office"
  /\ applied.args.value.pickupWaitMinutes = 6
  /\ applied.result.total = 10

\* C20: building classification is first-match-wins in the order HDB, condo,
\* office, mall, industrial, landed, default: a text with keywords of
\* several categories is classified as the earliest of them in that order.
\* "BLK 123 ALJUNIED CONDO" is hdb, and a text with both a condo and an
\* office keyword is condo.
C20_FirstMatchWins ==
  applied.fn = "detectBuildingType" =>
     LET text == Combined(applied.args.value)
         matched == {c \in DOMAIN Categories : KeywordMatch(Categories[c], text)}
     IN  /\ Cardinality(matched) >= 2 =>
              \E c \in matched :
                 /\ \A d \in matched : c <= d
                 /\ applied.result = Categories[c]
         /\ applied.args.value.ADDRESS = <<"BLK", "123", "ALJUNIED", "CONDO">> =>
              applied.result = "hdb"
         /\ (matched = {2, 3}) => applied.result = "condo"

\* "BLK 123 ALJUNIED CONDO" has been classified.
C20_Witness ==
  /\ applied.fn = "detectBuildingType"
  /\ applied.args.value.BUILDING = <<>>
  /\ applied.args.value.ADDRESS = <<"BLK", "123", "ALJUNIED", "CONDO">>
  /\ applied.result = "hdb"

\* The routing call of the last leg of a calculation fails, after the calls
\* of all earlier legs have failed, and analyzeOrder runs to its end.
C17_LastLegUnavailable ==
  /\ pc = "route"
  /\ caller # "direct"
  /\ \A i \in DOMAIN legOutcomes : legOutcomes[i] = "threw"
  /\ \E i \in pendingLegs, o \in RouteOutcomes \ {"ok"} : LegResponds(i, o)
  /\ pc' = "idle"

\* C17: when every point of the route has the same coordinates, so that the
\* total distance is 0, and efficiency and price are valid, calculateFuelCost
\* does not raise and returns cost 0 and litresUsed 0, and the analysis ends
\* with a report, not an error.
C17_ZeroDistanceReported ==
  [][(/\ C17_LastLegUnavailable
      /\ \A i \in DOMAIN points :
           points[i].lat = points[1].lat /\ points[i].lng = points[1].lng
      /\ ResolveEfficiency(formData) > 0
      /\ ResolveEfficiency(formData) <= 100
      /\ formData.petrolPrice > 0)
     => /\ view'.kind = "results"
        /\ lastResult' = view'.result
        /\ lastResult'.kind = "report"
        /\ lastResult'.route.totalDistanceKm = 0
        /\ lastResult'.fuel.cost = 0
        /\ lastResult'.fuel.litresUsed = 0]_vars

\* A report for an order whose pickup and stop are at the rider's own
\* position: no distance, no fuel.
C17_Witness ==
  /\ view.kind = "results"
  /\ lastResult = view.result
  /\ lastResult.locations.pickup.lat = lastResult.locations.current.lat
  /\ lastResult.locations.pickup.lng = lastResult.locations.current.lng
  /\ lastResult.locations.stops[1].lat = lastResult.locations.current.lat
  /\ lastResult.locations.stops[1].lng = lastResult.locations.current.lng
  /\ lastResult.route.totalDistanceKm = 0
  /\ lastResult.fuel.cost = 0
  /\ lastResult.fuel.costPerKm.isNaN

\* The scenario of C19: the rider's position is given as coordinates inside
\* the bounds, the pickup resolves to an HDB block, the one stop to an office
\* building, no wait time is overridden, the routing service is unavailable
\* for every leg, and a report is produced.
C19_Scenario ==
  /\ C17_LastLegUnavailable
  /\ parseCoordinates(formData.currentLocation).isCoordinates
  /\ Len(formData.stops) = 1
  /\ geocoded[2].buildingType = "hdb"
  /\ geocoded[3].buildingType = "office"
  /\ \A i \in DOMAIN formData.waitOverrides :
       formData.waitOverrides[i].kind = "undefined"
  /\ view'.kind = "results"

\* C19 as stated: in that scenario the report has route.hasEstimates = true,
\* every leg marked as an estimate, and waitTime.total = 13.
C19_Original ==
  [][C19_Scenario
     => /\ view'.result.route.hasEstimates
        /\ \A i \in DOMAIN view'.result.route.legs :
             view'.result.route.legs[i].isEstimate
        /\ view'.result.waitTime.total = 13]_vars

\* C19: in that scenario the report has route.hasEstimates = true, every leg
\* marked as an estimate, and waitTime.total = 10, the wait at the office
\* stop; the pickup's building type adds nothing, and the pickup wait of 6
\* minutes is reported apart from the total.
C19_EndToEnd ==
  [][C19_Scenario
     => /\ view'.result.route.hasEstimates
        /\ Len(view'.result.route.legs) = 2
        /\ \A i \in DOMAIN view'.result.route.legs :
             view'.result.route.legs[i].isEstimate
        /\ view'.result.waitTime.total = 10
        /\ view'.result.waitTime.pickupWait = 6]_vars

\* The report of the scenario: coordinates for the rider, an HDB pickup, an
\* office stop, both legs estimated.
C19_Witness ==
  /\ view.kind = "results"
  /\ view.result.locations.current.address.src \in {"reverse", "coords"}
  /\ view.result.locations.pickup.buildingType = "hdb"
  /\ Len(view.result.locations.stops) = 1
  /\ view.result.locations.stops[1].buildingType = "office"
  /\ view.result.route.hasEstimates
  /\ \A i \in DOMAIN view.result.route.legs : view.result.route.legs[i].isEstimate
  /\ ~view.result.waitTime.breakdown[1].isOverride
  /\ view.result.waitTime.total = 10

\* The building types of the claim, and a located lookup whose text matches
\* no rule of the classifier.
C21_NoRuleMatches(l) ==
  /\ l.via = "search"
  /\ \A c \in DOMAIN Categories :
       ~KeywordMatch(Categories[c], Combined(SearchBest(l.input)))

\* C21 as stated: every location of the geocoder has a building type in
\* {hdb, condo, office, mall, industrial, landed, unknown}; a text matching
\* no rule and a coordinate input whose reverse lookup failed get "unknown".
C21_Original ==
  \A i \in DOMAIN lookups :
     lookups[i].status = "ok" =>
        /\ lookups[i].loc.buildingType \in
             {"hdb", "condo", "office", "mall", "industrial", "landed", "unknown"}
        /\ C21_NoRuleMatches(lookups[i]) =>
             lookups[i].loc.buildingType = "unknown"
        /\ (lookups[i].via = "reverse" /\ lookups[i].outcome = "threw") =>
             lookups[i].loc.buildingType = "unknown"

\* C21: every location of the geocoder has a building type in {hdb, condo,
\* office, mall, industrial, landed, default}; a text matching no rule and a
\* coordinate input whose reverse lookup failed get "default".
C21_BuildingTypeClosed ==
  \A i \in DOMAIN lookups :
     lookups[i].status = "ok" =>
        /\ lookups[i].loc.buildingType \in
             {"hdb", "condo", "office", "mall", "industrial", "landed", "default"}
        /\ C21_NoRuleMatches(lookups[i]) =>
             lookups[i].loc.buildingType = "default"
        /\ (lookups[i].via = "reverse" /\ lookups[i].outcome = "threw") =>
             lookups[i].loc.buildingType = "default"

\* One batch with a reverse lookup that failed, a searched text that matches
\* a rule, and all of them located.
C21_Witness ==
  /\ Len(lookups) >= 2
  /\ \A i \in DOMAIN lookups : lookups[i].status = "ok"
  /\ lookups[1].via = "reverse"
  /\ lookups[1].outcome = "threw"
  /\ lookups[1].loc.buildingType = "default"
  /\ lookups[2].loc.buildingType = "hdb"

\* C22: traffic auto-detection is a total function of the Singapore local
\* hour h in 0..23: heavy for 7 <= h < 10 and 17 <= h < 20, normal for
\* 11 <= h < 14 and 14 <= h < 17, light for every other hour; it is used only
\* when the caller supplies no condition, otherwise the route records the
\* caller's.
C22_TrafficSchedule ==
  applied.fn = "detectTrafficCondition" =>
     LET h == applied.args.value.hour
         tc == applied.args.value.trafficCondition
         r == applied.result
         heavy == (7 <= h /\ h < 10) \/ (17 <= h /\ h < 20)
         normal == (11 <= h /\ h < 14) \/ (14 <= h /\ h < 17)
     IN  /\ r.detected \in {"heavy", "normal", "light"}
         /\ r.detected = "heavy" <=> heavy
         /\ r.detected = "normal" <=> normal
         /\ r.detected = "light" <=> (~heavy /\ ~normal)
         /\ tc # "" => r.traffic = tc
         /\ tc = "" => r.traffic = r.detected

\* At 10 o'clock, the end of the morning peak, with a condition supplied
\* that differs from the detected one.
C22_Witness ==
  /\ applied.fn = "detectTrafficCondition"
  /\ applied.args.value.hour = 10
  /\ applied.args.value.trafficCondition = "heavy"
  /\ applied.result.detected = "light"
  /\ applied.result.traffic = "heavy"

\* C23: a reverse-geocoded location is classified by the same rules as a
\* searched one: for every building name and road without a block number,
\* detectBuildingTypeFromReverse returns the building type detectBuildingType
\* returns (TOWER, CENTRE and PLAZA office, MALL mall).
C23_Original ==
  applied.fn = "classifyPlace" =>
     /\ applied.result.reverse = applied.result.forward
     /\ applied.args.value.name \in {<<"ALJUNIED", "TOWER">>,
                                     <<"ALJUNIED", "CENTRE">>,
                                     <<"ALJUNIED", "PLAZA">>} =>
          applied.result.reverse = "office"
     /\ applied.args.value.name = <<"ALJUNIED", "MALL">> =>
          applied.result.reverse = "mall"

(***************************************************************************)
(* The stop rows on their own: add and remove clicks                       *)
(***************************************************************************)
formRest ==
  <<isCalculating, lastResult, formLoading, view, inFlight, submits,
    warnings, pc, formData, req, lookups, geocoded, tokenStore, secrets,
    secretsFile, token, points, traffic, legs, hasEstimates, pendingLegs,
    legOutcomes, caller, routeOut, calls, applied>>

\* The clicks on the stop rows' buttons that are followed.
MaxClicks == 9

\* click on "Add stop"
ClickAddStop ==
  /\ stopClicks < MaxClicks
  /\ stopClicks' = stopClicks + 1
  /\ stopsForm' = addStop(stopsForm)
  /\ UNCHANGED formRest

\* click on the remove button of the row at a position
ClickRemoveStop(clicked) ==
  /\ stopClicks < MaxClicks
  /\ clicked <= Len(stopsForm.rows)
  /\ stopClicks' = stopClicks + 1
  /\ stopsForm' = removeStop(stopsForm, clicked)
  /\ UNCHANGED formRest

NextForm ==
  \/ ClickAddStop
  \/ \E clicked \in RowPositions : ClickRemoveStop(clicked)

SpecForm == Init /\ [][NextForm]_vars

\* C24: the remove button of a row removes exactly that row whenever more
\* than one row exists, and the index a row's remove handler was created
\* with is the index the row carries after earlier removals renumbered it.
C24_Original ==
  /\ (stopsForm.last.op = "removeStop" /\ stopsForm.last.rowsBefore > 1) =>
       stopsForm.last.removed = stopsForm.last.clicked
  /\ \A i \in 1..Len(stopsForm.rows) :
       stopsForm.rows[i].handler = stopsForm.rows[i].dataIndex

\* C25: the form has between 1 and maxStops rows, addStop succeeds whenever
\* fewer than maxStops rows exist and is refused only at maxStops rows, and
\* removeStop is refused only when a single row remains.
C25_Original ==
  /\ Len(stopsForm.rows) \in 1..maxStops
  /\ (stopsForm.last.op = "addStop" /\ stopsForm.last.rowsBefore < maxStops) =>
       stopsForm.last.alert = ""
  /\ stopsForm.last.alert = MaximumStopsAlert =>
       stopsForm.last.rowsBefore = maxStops
  /\ stopsForm.last.alert = AtLeastOneStopAlert =>
       stopsForm.last.rowsBefore = 1

\* The stop that the row at a position becomes: its rank among the rows
\* with an address.
C26_StopOfRow(rows, i) ==
  Cardinality({j \in 1 .. i : TrimmedLength(rows[j].address) > 0})

\* C26: a wait override entered in the row of a stop is applied to that
\* stop, also when rows with an empty address are dropped: the stop of a row
\* with override w waits w minutes as an override, and the stop of a row
\* without an override gets no override.
C26_Original ==
  (applied.fn = "handleFormSubmit" /\ applied.result.isValid) =>
    LET rows == applied.args.value.rows
        breakdown == applied.result.waitTime.breakdown
    IN \A i \in 1 .. Len(rows) :
         TrimmedLength(rows[i].address) > 0 =>
           LET item == breakdown[C26_StopOfRow(rows, i)]
           IN IF rows[i].wait = EmptyText
              THEN ~item.isOverride
              ELSE item.isOverride /\ item.minutes = rows[i].wait.number

\* C28: form data that passes validateFormData holds only wait overrides
\* between 0 and 60 minutes, and the total time of the order is at least the
\* wait at the pickup.
C28_Original ==
  (applied.fn = "handleFormSubmit" /\ applied.result.isValid) =>
    LET overrides == applied.result.formData.waitOverrides
    IN /\ \A index \in DOMAIN overrides :
            overrides[index].kind = "number" =>
              overrides[index].minutes \in 0 .. 60
       /\ applied.result.totalTimeMinutes >= Minutes(DefaultPickupWaitMinutes)

(***************************************************************************)
(* The calculation when every external call is answered                    *)
(***************************************************************************)
\* Forms whose analysis ends in each way: a plain order (a report), a
\* custom efficiency of 0 (the efficiency check fails) and a custom
\* efficiency out of range (the fuel cost is refused).
LiveChoices ==
  {[pickup |-> TextInput("A"), bikeModel |-> "ybr125", customEfficiency |-> 0],
   [pickup |-> TextInput("A"), bikeModel |-> "custom", customEfficiency |-> 0],
   [pickup |-> TextInput("A"), bikeModel |-> "custom", customEfficiency |-> 150]}
LiveForms ==
  {[currentLocation |-> TextInput("C"), pickup |-> c.pickup,
    stops |-> [i \in 1 .. MaxStops |-> TextInput("C")], fare |-> f,
    bikeModel |-> c.bikeModel, customEfficiency |-> c.customEfficiency,
    petrolPrice |-> pp,
    waitOverrides |-> [i \in 1 .. MaxStops |-> NoOverride],
    trafficCondition |-> t] :
     c \in LiveChoices, f \in Fares, pp \in PetrolPrices, t \in FormTraffic}

NextLive ==
  \/ \E fd \in LiveForms : HandleCalculate(fd)
  \/ \E i \in 1 .. (MaxStops + 2), o \in SearchOutcomes : LookupResponds(i, o)
  \/ BatchResolved
  \/ SecretsLoaded
  \/ \E o \in TokenOutcomes : TokenResponds(o)
  \/ EnterRoute
  \/ \E i \in 1 .. (MaxStops + 1), o \in RouteOutcomes : LegResponds(i, o)

\* A lookup is out: the guard of LookupResponds, so ENABLED of the step
\* below.
LookupOut == pc = "geocode" /\ Pending(lookups) # {}
LookupAnswered ==
  \E i \in 1 .. (MaxStops + 2), o \in SearchOutcomes : LookupResponds(i, o)

\* A routing request is out: the guard of LegResponds, so ENABLED of the
\* step below.
LegOut == pc = "route" /\ pendingLegs # {}
LegAnswered ==
  \E i \in 1 .. (MaxStops + 1), o \in RouteOutcomes : LegResponds(i, o)

\* Every request that is out is answered or fails, and every continuation
\* that is ready runs.  For the lookups and the routing requests the weak
\* fairness condition WF_vars(A) is written out as []<>(~ENABLED <<A>>_vars)
\* \/ []<><<A>>_vars with the guard of A for ENABLED <<A>>_vars.
AnsweredCalls ==
  /\ []<>(~LookupOut) \/ []<><<LookupAnswered>>_vars
  /\ WF_vars(BatchResolved)
  /\ WF_vars(SecretsLoaded)
  /\ WF_vars(\E o \in TokenOutcomes : TokenResponds(o))
  /\ WF_vars(EnterRoute)
  /\ []<>(~LegOut) \/ []<><<LegAnswered>>_vars

\* The guards are what ENABLED says.
C27_GuardsAreEnabled ==
  /\ LookupOut <=> ENABLED <<LookupAnswered>>_vars
  /\ LegOut <=> ENABLED <<LegAnswered>>_vars

SpecLive == Init /\ [][NextLive]_vars /\ AnsweredCalls

\* C27: when every external call is answered or fails, every accepted
\* calculation ends with state.isCalculating false and the form enabled
\* again, whatever step of the analysis raised, and isCalculating is true
\* exactly while an accepted request has not completed.
C27_CalculationEnds ==
  /\ isCalculating ~> (~isCalculating /\ ~formLoading /\ pc = "idle")
  /\ [](isCalculating <=> pc # "idle")
  /\ [](isCalculating <=> formLoading)

\* A calculation was accepted, its analysis raised, and the flag and the
\* form are released.
C27_Witness ==
  /\ submits >= 1
  /\ view.kind = "error"
  /\ view.error.name = "fuelEfficiency"
  /\ ~isCalculating
  /\ ~formLoading
  /\ pc = "idle"

\* C29: the minimum fare for a good rating is sufficient: for every fuel
\* cost and every total time above 0, the same order at the fare
\* minimumFareForGood is rated good or excellent.
C29_Original ==
  (applied.fn = "getInsights" /\ applied.result.result.totalTimeMinutes > 0) =>
    applied.result.atMinimum.rating \in {"good", "excellent"}

\* The tokens that were issued together with an expiry: the one found in the
\* store at load with an expiry, and those a refresh returns.
C30_IssuedWithExpiry == {"old", FreshToken("init"), FreshToken("calc")}

\* C30: whenever the store holds both a token and an expiry, the expiry is
\* the one issued together with that token; a token typed in, which has no
\* expiry, is never held next to the expiry of another token.
C30_Original ==
  (tokenStore.token # NoToken /\ tokenStore.expiry # "none") =>
    tokenStore.token \in C30_IssuedWithExpiry

====
